---- MODULE Spec2Model ----
(***************************************************************************)
(* The sixteen diagram scripts of the e-commerce documentation repository  *)
(* and the graph each of them declares.                                    *)
(*                                                                         *)
(* Every script is a straight-line Python program: it opens one Diagram,   *)
(* constructs nodes inside nested `with Cluster` blocks, connects them     *)
(* with the operators >>, << and -, and leaves the Diagram block, which    *)
(* renders the graph to an image file.  The scripts are modelled as        *)
(* statement sequences (one record per Python statement, in source order,  *)
(* with its source line) run by an interpreter with one action per kind    *)
(* of statement.  The interpreter state is the Python namespace, the       *)
(* stack of open with-blocks and for-loops, and the diagram object being   *)
(* assembled: its nodes, clusters and edges.                               *)
(***************************************************************************)
EXTENDS Integers, Sequences, FiniteSets, TLC

(***************************************************************************)
(* Python expressions that occur as operands in the scripts.               *)
(***************************************************************************)
\* a variable reference: customer
Name(id) == [t |-> "var", name |-> id]

\* a list element: primary_services[0]
Subscript(id, i) == [t |-> "idx", name |-> id, i |-> i]

\* a list display of variables: [prometheus, grafana, jaeger_query]
List(ids) == [t |-> "list", names |-> ids]

\* an edge constructor call Edge(k=v, ..., **class): inst holds the keywords
\* written at the call, class names the dictionary spread into it ("" if none)
Edge(class, inst) == [t |-> "edge", class |-> class, inst |-> inst]

\* an attribute reference: pod_instance.label
Attribute(id, attr) == [t |-> "attr", name |-> id, attr |-> attr]

\* a string literal
Constant(s) == [t |-> "lit", s |-> s]

(***************************************************************************)
(* The scripts.  Each definition gives the arguments of the script's       *)
(* Diagram(...) call, the style dictionaries defined at module level, and  *)
(* the statements of the script from `with Diagram` on.  Statement kinds:  *)
(*   diagram  with Diagram(...) [as var]:                                  *)
(*   node     var = Class(label, **class, k=v...)                          *)
(*   nodes    var = [Class(label), ...]                                    *)
(*   list     var = [name, ...]                                            *)
(*   cluster  var = Cluster(label, graph_attr=...)                         *)
(*   with     with Cluster(label, graph_attr=...):                         *)
(*   enter    with var:                                                    *)
(*   exit     end of a `with Cluster` / `with var` block                   *)
(*   for      for var in iter:      (end = index of the matching endfor)   *)
(*   endfor   end of a for body     (start = index of the for statement)   *)
(*   edge     var = Edge(...)                                              *)
(*   chain    first op arg op arg ...   (an expression statement)          *)
(*   export   end of the `with Diagram` block                              *)
(*   print    print(...)                                                   *)
(*   name     a bare name used as a statement                              *)
(* The calls add_invisible_edge(a, b) and create_rank_node() of the        *)
(* data-flow script are replaced by the expressions those functions        *)
(* return.                                                                 *)
(***************************************************************************)
\* src/architecture/diagrams/c4/c1 (Context)/c1_system_context_diagram.py
c1_system_context_diagram ==
  [ file |-> "src/architecture/diagrams/c4/c1 (Context)/c1_system_context_diagram.py",
    name |-> "C1 E-Commerce Platform System Context Diagram",
    filename |-> "c1_system_context_diagram",
    outformat |-> "jpg",
    show |-> FALSE,
    direction |-> "LR",
    graph_attr |-> [fontsize |-> "20", bgcolor |-> "transparent", splines |-> "spline", nodesep |-> "1.2", ranksep |-> "1.8"],
    node_attr |-> <<>>,
    edge_attr |-> <<>>,
    styles |-> <<>>,
    body |-> <<
      (*   1 *) [op |-> "diagram", line |-> 22, var |-> ""],
      (*   2 *) [op |-> "node", line |-> 25, var |-> "customer", cls |-> "User", label |-> "Customer\n(Uses the platform to browse and purchase products)", class |-> "", inst |-> <<>>],
      (*   3 *) [op |-> "node", line |-> 26, var |-> "admin_user", cls |-> "User", label |-> "Admin User\n(Manages platform content, users, and orders)", class |-> "", inst |-> <<>>],
      (*   4 *) [op |-> "node", line |-> 29, var |-> "payment_gateway", cls |-> "Server", label |-> "External Payment Gateway\n(e.g., Stripe, PayPal)\nProcesses payments", class |-> "", inst |-> <<>>],
      (*   5 *) [op |-> "node", line |-> 30, var |-> "shipping_provider", cls |-> "Server", label |-> "External Shipping Provider\n(e.g., FedEx, DHL)\nHandles order fulfillment logistics", class |-> "", inst |-> <<>>],
      (*   6 *) [op |-> "node", line |-> 31, var |-> "identity_provider", cls |-> "Vault", label |-> "External Identity Provider\n(e.g., Auth0, Okta)\nManages user authentication", class |-> "", inst |-> <<>>],
      (*   7 *) [op |-> "with", line |-> 35, label |-> Constant("Our E-Commerce Ecosystem"), graph_attr |-> <<>>],
      (*   8 *) [op |-> "node", line |-> 36, var |-> "ecommerce_system", cls |-> "Server", label |-> "E-Commerce Platform\n(The software system being built)", class |-> "", inst |-> <<>>],
      (*   9 *) [op |-> "exit", line |-> 36],
      (*  10 *) [op |-> "chain", line |-> 39, first |-> Name("customer"), steps |-> <<<<">>", Edge("", [label |-> "Uses (HTTPS)"])>>, <<">>", Name("ecommerce_system")>>>>],
      (*  11 *) [op |-> "chain", line |-> 40, first |-> Name("admin_user"), steps |-> <<<<">>", Edge("", [label |-> "Manages (HTTPS)"])>>, <<">>", Name("ecommerce_system")>>>>],
      (*  12 *) [op |-> "chain", line |-> 42, first |-> Name("ecommerce_system"), steps |-> <<<<">>", Edge("", [label |-> "Processes Payments Via (API/HTTPS)"])>>, <<">>", Name("payment_gateway")>>>>],
      (*  13 *) [op |-> "chain", line |-> 43, first |-> Name("ecommerce_system"), steps |-> <<<<">>", Edge("", [label |-> "Arranges Shipping Via (API)"])>>, <<">>", Name("shipping_provider")>>>>],
      (*  14 *) [op |-> "chain", line |-> 44, first |-> Name("ecommerce_system"), steps |-> <<<<">>", Edge("", [label |-> "Authenticates Users Via (OAuth/SAML)"])>>, <<">>", Name("identity_provider")>>>>],
      (*  15 *) [op |-> "export", line |-> 44],
      (*  16 *) [op |-> "print", line |-> 47]
    >> ]

\* src/architecture/diagrams/c4/c2 (Container)/c2_container_diagram.py
c2_container_diagram ==
  [ file |-> "src/architecture/diagrams/c4/c2 (Container)/c2_container_diagram.py",
    name |-> "C2 E-Commerce Platform Container Diagram",
    filename |-> "c2_container_diagram",
    outformat |-> "jpg",
    show |-> FALSE,
    direction |-> "LR",
    graph_attr |-> [fontsize |-> "18", bgcolor |-> "transparent", splines |-> "ortho", nodesep |-> "1.0", ranksep |-> "1.8", concentrate |-> "true", compound |-> "true"],
    node_attr |-> <<>>,
    edge_attr |-> <<>>,
    styles |-> <<>>,
    body |-> <<
      (*   1 *) [op |-> "diagram", line |-> 33, var |-> ""],
      (*   2 *) [op |-> "node", line |-> 36, var |-> "customer", cls |-> "User", label |-> "Customer\n(Web/Mobile User)", class |-> "", inst |-> <<>>],
      (*   3 *) [op |-> "node", line |-> 37, var |-> "admin_user", cls |-> "User", label |-> "Admin User\n(Manages platform)", class |-> "", inst |-> <<>>],
      (*   4 *) [op |-> "node", line |-> 38, var |-> "external_payment_gateway", cls |-> "Server", label |-> "External Payment Gateway\n(e.g., Stripe, PayPal)", class |-> "", inst |-> <<>>],
      (*   5 *) [op |-> "node", line |-> 39, var |-> "external_shipping_provider", cls |-> "Server", label |-> "External Shipping Provider\n(e.g., FedEx, DHL)", class |-> "", inst |-> <<>>],
      (*   6 *) [op |-> "node", line |-> 40, var |-> "external_identity_provider", cls |-> "Vault", label |-> "External Identity Provider\n(e.g., Auth0, Okta)", class |-> "", inst |-> <<>>],
      (*   7 *) [op |-> "with", line |-> 43, label |-> Constant("E-Commerce Platform (Software System)"), graph_attr |-> <<>>],
      (*   8 *) [op |-> "with", line |-> 45, label |-> Constant("Frontend Applications"), graph_attr |-> <<>>],
      (*   9 *) [op |-> "node", line |-> 46, var |-> "web_app", cls |-> "Server", label |-> "Web Application\n(React/Vue/Angular)", class |-> "", inst |-> <<>>],
      (*  10 *) [op |-> "node", line |-> 47, var |-> "mobile_app", cls |-> "Mobile", label |-> "Mobile Application\n(iOS/Android)", class |-> "", inst |-> <<>>],
      (*  11 *) [op |-> "exit", line |-> 47],
      (*  12 *) [op |-> "with", line |-> 49, label |-> Constant("API Layer"), graph_attr |-> <<>>],
      (*  13 *) [op |-> "node", line |-> 50, var |-> "api_gateway", cls |-> "APIGateway", label |-> "API Gateway\n(Handles external requests, routes to services)", class |-> "", inst |-> <<>>],
      (*  14 *) [op |-> "exit", line |-> 50],
      (*  15 *) [op |-> "with", line |-> 52, label |-> Constant("Microservices (Backend Systems)"), graph_attr |-> <<>>],
      (*  16 *) [op |-> "node", line |-> 53, var |-> "product_service", cls |-> "Server", label |-> "Product Service\n(Manages product catalog, pricing)", class |-> "", inst |-> <<>>],
      (*  17 *) [op |-> "node", line |-> 54, var |-> "order_service", cls |-> "Server", label |-> "Order Service\n(Manages orders, cart, checkout)", class |-> "", inst |-> <<>>],
      (*  18 *) [op |-> "node", line |-> 55, var |-> "payment_service", cls |-> "Server", label |-> "Payment Service\n(Processes payments)", class |-> "", inst |-> <<>>],
      (*  19 *) [op |-> "node", line |-> 56, var |-> "user_service", cls |-> "Server", label |-> "User Service\n(Manages user accounts, profiles)", class |-> "", inst |-> <<>>],
      (*  20 *) [op |-> "node", line |-> 57, var |-> "inventory_service", cls |-> "Server", label |-> "Inventory Service\n(Manages stock levels - if separate)", class |-> "", inst |-> <<>>],
      (*  21 *) [op |-> "node", line |-> 58, var |-> "notification_service", cls |-> "Server", label |-> "Notification Service\n(Handles emails, SMS, push notifications)", class |-> "", inst |-> <<>>],
      (*  22 *) [op |-> "node", line |-> 59, var |-> "search_service_container", cls |-> "Server", label |-> "Search Service\n(Provides search capabilities - distinct from index)", class |-> "", inst |-> <<>>],
      (*  23 *) [op |-> "exit", line |-> 59],
      (*  24 *) [op |-> "with", line |-> 61, label |-> Constant("Data Stores"), graph_attr |-> <<>>],
      (*  25 *) [op |-> "node", line |-> 62, var |-> "product_db", cls |-> "PostgreSQL", label |-> "Product DB\n(PostgreSQL)", class |-> "", inst |-> <<>>],
      (*  26 *) [op |-> "node", line |-> 63, var |-> "order_db", cls |-> "MongoDB", label |-> "Order DB\n(MongoDB)", class |-> "", inst |-> <<>>],
      (*  27 *) [op |-> "node", line |-> 64, var |-> "user_db", cls |-> "PostgreSQL", label |-> "User DB\n(PostgreSQL - for user profiles)", class |-> "", inst |-> <<>>],
      (*  28 *) [op |-> "node", line |-> 65, var |-> "inventory_db", cls |-> "Redis", label |-> "Inventory DB\n(Redis - for fast stock checks)", class |-> "", inst |-> <<>>],
      (*  29 *) [op |-> "node", line |-> 66, var |-> "payment_db", cls |-> "Cassandra", label |-> "Payment DB\n(Cassandra - for transaction logs)", class |-> "", inst |-> <<>>],
      (*  30 *) [op |-> "exit", line |-> 66],
      (*  31 *) [op |-> "with", line |-> 68, label |-> Constant("Search & Caching"), graph_attr |-> <<>>],
      (*  32 *) [op |-> "node", line |-> 69, var |-> "search_index", cls |-> "Elasticsearch", label |-> "Search Index\n(Elasticsearch)", class |-> "", inst |-> <<>>],
      (*  33 *) [op |-> "node", line |-> 70, var |-> "cache", cls |-> "Redis", label |-> "Distributed Cache\n(Redis)", class |-> "", inst |-> <<>>],
      (*  34 *) [op |-> "exit", line |-> 70],
      (*  35 *) [op |-> "with", line |-> 72, label |-> Constant("Messaging Infrastructure"), graph_attr |-> <<>>],
      (*  36 *) [op |-> "node", line |-> 73, var |-> "message_broker", cls |-> "Kafka", label |-> "Message Broker\n(Kafka/RabbitMQ)\nEvent-driven communication", class |-> "", inst |-> <<>>],
      (*  37 *) [op |-> "exit", line |-> 73],
      (*  38 *) [op |-> "chain", line |-> 77, first |-> Name("web_app"), steps |-> <<<<">>", Edge("", [label |-> "Makes API calls (HTTPS)"])>>, <<">>", Name("api_gateway")>>>>],
      (*  39 *) [op |-> "chain", line |-> 78, first |-> Name("mobile_app"), steps |-> <<<<">>", Edge("", [label |-> "Makes API calls (HTTPS)"])>>, <<">>", Name("api_gateway")>>>>],
      (*  40 *) [op |-> "chain", line |-> 81, first |-> Name("api_gateway"), steps |-> <<<<">>", Edge("", [label |-> "Routes to"])>>, <<">>", Name("product_service")>>>>],
      (*  41 *) [op |-> "chain", line |-> 82, first |-> Name("api_gateway"), steps |-> <<<<">>", Edge("", [label |-> "Routes to"])>>, <<">>", Name("order_service")>>>>],
      (*  42 *) [op |-> "chain", line |-> 83, first |-> Name("api_gateway"), steps |-> <<<<">>", Edge("", [label |-> "Routes to"])>>, <<">>", Name("payment_service")>>>>],
      (*  43 *) [op |-> "chain", line |-> 84, first |-> Name("api_gateway"), steps |-> <<<<">>", Edge("", [label |-> "Routes to"])>>, <<">>", Name("user_service")>>>>],
      (*  44 *) [op |-> "chain", line |-> 85, first |-> Name("api_gateway"), steps |-> <<<<">>", Edge("", [label |-> "Routes to"])>>, <<">>", Name("search_service_container")>>>>],
      (*  45 *) [op |-> "chain", line |-> 86, first |-> Name("api_gateway"), steps |-> <<<<">>", Edge("", [label |-> "Routes to (async trigger)"])>>, <<">>", Name("notification_service")>>>>],
      (*  46 *) [op |-> "chain", line |-> 89, first |-> Name("order_service"), steps |-> <<<<">>", Edge("", [label |-> "Requests product info"])>>, <<">>", Name("product_service")>>>>],
      (*  47 *) [op |-> "chain", line |-> 90, first |-> Name("order_service"), steps |-> <<<<">>", Edge("", [label |-> "Requests inventory check"])>>, <<">>", Name("inventory_service")>>>>],
      (*  48 *) [op |-> "chain", line |-> 91, first |-> Name("order_service"), steps |-> <<<<">>", Edge("", [label |-> "Initiates payment"])>>, <<">>", Name("payment_service")>>>>],
      (*  49 *) [op |-> "chain", line |-> 92, first |-> Name("order_service"), steps |-> <<<<">>", Edge("", [label |-> "Publishes OrderCreated event"])>>, <<">>", Name("message_broker")>>>>],
      (*  50 *) [op |-> "chain", line |-> 94, first |-> Name("inventory_service"), steps |-> <<<<">>", Edge("", [label |-> "Reads/Writes stock levels"])>>, <<">>", Name("inventory_db")>>>>],
      (*  51 *) [op |-> "chain", line |-> 96, first |-> Name("payment_service"), steps |-> <<<<">>", Edge("", [label |-> "Publishes PaymentProcessed event"])>>, <<">>", Name("message_broker")>>>>],
      (*  52 *) [op |-> "chain", line |-> 97, first |-> Name("product_service"), steps |-> <<<<">>", Edge("", [label |-> "Publishes ProductUpdated event"])>>, <<">>", Name("message_broker")>>>>],
      (*  53 *) [op |-> "chain", line |-> 98, first |-> Name("inventory_service"), steps |-> <<<<">>", Edge("", [label |-> "Publishes StockUpdated event"])>>, <<">>", Name("message_broker")>>>>],
      (*  54 *) [op |-> "chain", line |-> 99, first |-> Name("user_service"), steps |-> <<<<">>", Edge("", [label |-> "Publishes UserRegistered event"])>>, <<">>", Name("message_broker")>>>>],
      (*  55 *) [op |-> "chain", line |-> 101, first |-> Name("search_service_container"), steps |-> <<<<">>", Edge("", [label |-> "Queries/Manages"])>>, <<">>", Name("search_index")>>>>],
      (*  56 *) [op |-> "chain", line |-> 104, first |-> Name("message_broker"), steps |-> <<<<">>", Edge("", [label |-> "OrderCreated event"])>>, <<">>", Name("notification_service")>>>>],
      (*  57 *) [op |-> "chain", line |-> 105, first |-> Name("message_broker"), steps |-> <<<<">>", Edge("", [label |-> "PaymentProcessed event"])>>, <<">>", Name("order_service")>>>>],
      (*  58 *) [op |-> "chain", line |-> 106, first |-> Name("message_broker"), steps |-> <<<<">>", Edge("", [label |-> "ProductUpdated event"])>>, <<">>", Name("search_service_container")>>>>],
      (*  59 *) [op |-> "chain", line |-> 107, first |-> Name("message_broker"), steps |-> <<<<">>", Edge("", [label |-> "PaymentProcessed event"])>>, <<">>", Name("notification_service")>>>>],
      (*  60 *) [op |-> "chain", line |-> 108, first |-> Name("message_broker"), steps |-> <<<<">>", Edge("", [label |-> "StockUpdated event"])>>, <<">>", Name("product_service")>>>>],
      (*  61 *) [op |-> "chain", line |-> 109, first |-> Name("message_broker"), steps |-> <<<<">>", Edge("", [label |-> "UserRegistered event"])>>, <<">>", Name("notification_service")>>>>],
      (*  62 *) [op |-> "chain", line |-> 112, first |-> Name("product_service"), steps |-> <<<<">>", Edge("", [label |-> "Reads/Writes"])>>, <<">>", Name("product_db")>>>>],
      (*  63 *) [op |-> "chain", line |-> 113, first |-> Name("product_service"), steps |-> <<<<">>", Edge("", [label |-> "Updates"])>>, <<">>", Name("search_index")>>>>],
      (*  64 *) [op |-> "chain", line |-> 114, first |-> Name("product_service"), steps |-> <<<<">>", Edge("", [label |-> "Uses"])>>, <<">>", Name("cache")>>>>],
      (*  65 *) [op |-> "chain", line |-> 116, first |-> Name("order_service"), steps |-> <<<<">>", Edge("", [label |-> "Reads/Writes"])>>, <<">>", Name("order_db")>>>>],
      (*  66 *) [op |-> "chain", line |-> 117, first |-> Name("order_service"), steps |-> <<<<">>", Edge("", [label |-> "Uses"])>>, <<">>", Name("cache")>>>>],
      (*  67 *) [op |-> "chain", line |-> 119, first |-> Name("payment_service"), steps |-> <<<<">>", Edge("", [label |-> "Reads/Writes"])>>, <<">>", Name("payment_db")>>>>],
      (*  68 *) [op |-> "chain", line |-> 121, first |-> Name("user_service"), steps |-> <<<<">>", Edge("", [label |-> "Reads/Writes"])>>, <<">>", Name("user_db")>>>>],
      (*  69 *) [op |-> "chain", line |-> 123, first |-> Name("inventory_service"), steps |-> <<<<">>", Edge("", [label |-> "Reads/Writes"])>>, <<">>", Name("inventory_db")>>>>],
      (*  70 *) [op |-> "chain", line |-> 125, first |-> Name("search_service_container"), steps |-> <<<<">>", Edge("", [label |-> "Queries"])>>, <<">>", Name("search_index")>>>>],
      (*  71 *) [op |-> "name", line |-> 129, var |-> "notification_service"],
      (*  72 *) [op |-> "exit", line |-> 129],
      (*  73 *) [op |-> "chain", line |-> 132, first |-> Name("customer"), steps |-> <<<<">>", Edge("", [label |-> "Uses"])>>, <<">>", Name("web_app")>>>>],
      (*  74 *) [op |-> "chain", line |-> 133, first |-> Name("customer"), steps |-> <<<<">>", Edge("", [label |-> "Uses"])>>, <<">>", Name("mobile_app")>>>>],
      (*  75 *) [op |-> "chain", line |-> 134, first |-> Name("admin_user"), steps |-> <<<<">>", Edge("", [label |-> "Accesses Admin Panel via"])>>, <<">>", Name("web_app")>>>>],
      (*  76 *) [op |-> "chain", line |-> 136, first |-> Name("payment_service"), steps |-> <<<<">>", Edge("", [label |-> "Processes payments via (HTTPS)"])>>, <<">>", Name("external_payment_gateway")>>>>],
      (*  77 *) [op |-> "chain", line |-> 137, first |-> Name("order_service"), steps |-> <<<<">>", Edge("", [label |-> "Gets shipping rates/labels from (API)"])>>, <<">>", Name("external_shipping_provider")>>>>],
      (*  78 *) [op |-> "chain", line |-> 138, first |-> Name("user_service"), steps |-> <<<<">>", Edge("", [label |-> "Authenticates via (OAuth/SAML)"])>>, <<">>", Name("external_identity_provider")>>>>],
      (*  79 *) [op |-> "chain", line |-> 139, first |-> Name("api_gateway"), steps |-> <<<<">>", Edge("", [label |-> "Delegates authentication (sometimes)"])>>, <<">>", Name("external_identity_provider")>>>>],
      (*  80 *) [op |-> "export", line |-> 139],
      (*  81 *) [op |-> "print", line |-> 142]
    >> ]

\* src/architecture/diagrams/c4/c3 (Component)/inventory-service/c3_inventory_service_diagram.py
c3_inventory_service_diagram ==
  [ file |-> "src/architecture/diagrams/c4/c3 (Component)/inventory-service/c3_inventory_service_diagram.py",
    name |-> "C3 Inventory Service Component Diagram",
    filename |-> "c3_inventory_service_diagram",
    outformat |-> "jpg",
    show |-> FALSE,
    direction |-> "LR",
    graph_attr |-> [fontsize |-> "20", bgcolor |-> "transparent", splines |-> "ortho", nodesep |-> "1.2", ranksep |-> "1.8", concentrate |-> "true", compound |-> "true"],
    node_attr |-> <<>>,
    edge_attr |-> <<>>,
    styles |-> <<>>,
    body |-> <<
      (*   1 *) [op |-> "diagram", line |-> 24, var |-> ""],
      (*   2 *) [op |-> "node", line |-> 27, var |-> "admin", cls |-> "User", label |-> "Admin/Warehouse Users", class |-> "", inst |-> <<>>],
      (*   3 *) [op |-> "node", line |-> 28, var |-> "product_service", cls |-> "Server", label |-> "Product Service", class |-> "", inst |-> <<>>],
      (*   4 *) [op |-> "node", line |-> 29, var |-> "order_service", cls |-> "Server", label |-> "Order Service", class |-> "", inst |-> <<>>],
      (*   5 *) [op |-> "node", line |-> 30, var |-> "frontend", cls |-> "Users", label |-> "Frontend Applications", class |-> "", inst |-> <<>>],
      (*   6 *) [op |-> "node", line |-> 33, var |-> "inventory_db", cls |-> "PostgreSQL", label |-> "Inventory Database\n(PostgreSQL)", class |-> "", inst |-> <<>>],
      (*   7 *) [op |-> "node", line |-> 34, var |-> "inventory_cache", cls |-> "Redis", label |-> "Inventory Cache\n(Redis)", class |-> "", inst |-> <<>>],
      (*   8 *) [op |-> "node", line |-> 35, var |-> "msg_broker", cls |-> "Kafka", label |-> "Message Broker\n(e.g., Kafka, RabbitMQ)", class |-> "", inst |-> <<>>],
      (*   9 *) [op |-> "with", line |-> 38, label |-> Constant("Inventory Service Container\n(Manages stock levels and inventory operations)"), graph_attr |-> <<>>],
      (*  10 *) [op |-> "node", line |-> 41, var |-> "api_interface", cls |-> "Server", label |-> "Inventory API Interface\n[Component: NestJS Controller]\nExposes inventory endpoints", class |-> "", inst |-> <<>>],
      (*  11 *) [op |-> "node", line |-> 44, var |-> "inventory_manager", cls |-> "Server", label |-> "Inventory Manager\n[Component: NestJS Service]\nCore inventory operations logic", class |-> "", inst |-> <<>>],
      (*  12 *) [op |-> "node", line |-> 45, var |-> "reservation_service", cls |-> "Server", label |-> "Reservation Service\n[Component: NestJS Service]\nReserves inventory during checkout", class |-> "", inst |-> <<>>],
      (*  13 *) [op |-> "node", line |-> 46, var |-> "allocation_service", cls |-> "Server", label |-> "Allocation Service\n[Component: NestJS Service]\nAllocates inventory for fulfilled orders", class |-> "", inst |-> <<>>],
      (*  14 *) [op |-> "node", line |-> 47, var |-> "reporting_service", cls |-> "Server", label |-> "Reporting Service\n[Component: NestJS Service]\nInventory analytics and reporting", class |-> "", inst |-> <<>>],
      (*  15 *) [op |-> "node", line |-> 50, var |-> "domain_entities", cls |-> "Server", label |-> "Inventory Domain Entities\n[Component: TypeORM Entities]\nStockItem, Warehouse, etc.", class |-> "", inst |-> <<>>],
      (*  16 *) [op |-> "node", line |-> 53, var |-> "inventory_repository", cls |-> "Server", label |-> "Inventory Repository\n[Component: TypeORM Repository]\nData access for inventory entities", class |-> "", inst |-> <<>>],
      (*  17 *) [op |-> "node", line |-> 54, var |-> "cache_manager", cls |-> "Server", label |-> "Cache Manager\n[Component: Cache Client]\nManages fast access to inventory levels", class |-> "", inst |-> <<>>],
      (*  18 *) [op |-> "node", line |-> 57, var |-> "event_publisher", cls |-> "Server", label |-> "Event Publisher\n[Component: Message Client]\nPublishes inventory events", class |-> "", inst |-> <<>>],
      (*  19 *) [op |-> "node", line |-> 58, var |-> "event_consumer", cls |-> "Server", label |-> "Event Consumer\n[Component: Message Client]\nConsumes order and product events", class |-> "", inst |-> <<>>],
      (*  20 *) [op |-> "chain", line |-> 61, first |-> Name("api_interface"), steps |-> <<<<">>", Edge("", [label |-> "Uses"])>>, <<">>", Name("inventory_manager")>>>>],
      (*  21 *) [op |-> "chain", line |-> 62, first |-> Name("api_interface"), steps |-> <<<<">>", Edge("", [label |-> "Uses"])>>, <<">>", Name("reservation_service")>>>>],
      (*  22 *) [op |-> "chain", line |-> 63, first |-> Name("api_interface"), steps |-> <<<<">>", Edge("", [label |-> "Uses"])>>, <<">>", Name("allocation_service")>>>>],
      (*  23 *) [op |-> "chain", line |-> 64, first |-> Name("api_interface"), steps |-> <<<<">>", Edge("", [label |-> "Uses"])>>, <<">>", Name("reporting_service")>>>>],
      (*  24 *) [op |-> "chain", line |-> 66, first |-> Name("event_consumer"), steps |-> <<<<">>", Edge("", [label |-> "Triggers"])>>, <<">>", Name("reservation_service")>>>>],
      (*  25 *) [op |-> "chain", line |-> 67, first |-> Name("event_consumer"), steps |-> <<<<">>", Edge("", [label |-> "Triggers"])>>, <<">>", Name("allocation_service")>>>>],
      (*  26 *) [op |-> "chain", line |-> 69, first |-> Name("inventory_manager"), steps |-> <<<<">>", Edge("", [label |-> "Uses"])>>, <<">>", Name("domain_entities")>>>>],
      (*  27 *) [op |-> "chain", line |-> 70, first |-> Name("reservation_service"), steps |-> <<<<">>", Edge("", [label |-> "Uses"])>>, <<">>", Name("domain_entities")>>>>],
      (*  28 *) [op |-> "chain", line |-> 71, first |-> Name("allocation_service"), steps |-> <<<<">>", Edge("", [label |-> "Uses"])>>, <<">>", Name("domain_entities")>>>>],
      (*  29 *) [op |-> "chain", line |-> 72, first |-> Name("reporting_service"), steps |-> <<<<">>", Edge("", [label |-> "Uses"])>>, <<">>", Name("domain_entities")>>>>],
      (*  30 *) [op |-> "chain", line |-> 74, first |-> Name("inventory_manager"), steps |-> <<<<">>", Edge("", [label |-> "Persists via"])>>, <<">>", Name("inventory_repository")>>>>],
      (*  31 *) [op |-> "chain", line |-> 75, first |-> Name("reservation_service"), steps |-> <<<<">>", Edge("", [label |-> "Persists via"])>>, <<">>", Name("inventory_repository")>>>>],
      (*  32 *) [op |-> "chain", line |-> 76, first |-> Name("allocation_service"), steps |-> <<<<">>", Edge("", [label |-> "Persists via"])>>, <<">>", Name("inventory_repository")>>>>],
      (*  33 *) [op |-> "chain", line |-> 77, first |-> Name("reporting_service"), steps |-> <<<<">>", Edge("", [label |-> "Reads data via"])>>, <<">>", Name("inventory_repository")>>>>],
      (*  34 *) [op |-> "chain", line |-> 79, first |-> Name("inventory_manager"), steps |-> <<<<">>", Edge("", [label |-> "Uses"])>>, <<">>", Name("cache_manager")>>>>],
      (*  35 *) [op |-> "chain", line |-> 80, first |-> Name("reservation_service"), steps |-> <<<<">>", Edge("", [label |-> "Uses"])>>, <<">>", Name("cache_manager")>>>>],
      (*  36 *) [op |-> "chain", line |-> 82, first |-> Name("inventory_manager"), steps |-> <<<<">>", Edge("", [label |-> "Publishes via"])>>, <<">>", Name("event_publisher")>>>>],
      (*  37 *) [op |-> "chain", line |-> 83, first |-> Name("reservation_service"), steps |-> <<<<">>", Edge("", [label |-> "Publishes via"])>>, <<">>", Name("event_publisher")>>>>],
      (*  38 *) [op |-> "chain", line |-> 84, first |-> Name("allocation_service"), steps |-> <<<<">>", Edge("", [label |-> "Publishes via"])>>, <<">>", Name("event_publisher")>>>>],
      (*  39 *) [op |-> "exit", line |-> 84],
      (*  40 *) [op |-> "chain", line |-> 88, first |-> Name("admin"), steps |-> <<<<">>", Edge("", [label |-> "Manages inventory"])>>, <<">>", Name("api_interface")>>>>],
      (*  41 *) [op |-> "chain", line |-> 89, first |-> Name("product_service"), steps |-> <<<<">>", Edge("", [label |-> "Gets inventory levels"])>>, <<">>", Name("api_interface")>>>>],
      (*  42 *) [op |-> "chain", line |-> 90, first |-> Name("order_service"), steps |-> <<<<">>", Edge("", [label |-> "Reserves/allocates items"])>>, <<">>", Name("api_interface")>>>>],
      (*  43 *) [op |-> "chain", line |-> 91, first |-> Name("frontend"), steps |-> <<<<">>", Edge("", [label |-> "Views availability"])>>, <<">>", Name("api_interface")>>>>],
      (*  44 *) [op |-> "chain", line |-> 92, first |-> Name("msg_broker"), steps |-> <<<<">>", Edge("", [label |-> "Order/Product events"])>>, <<">>", Name("event_consumer")>>>>],
      (*  45 *) [op |-> "chain", line |-> 95, first |-> Name("inventory_repository"), steps |-> <<<<">>", Edge("", [label |-> "Reads/Writes"])>>, <<">>", Name("inventory_db")>>>>],
      (*  46 *) [op |-> "chain", line |-> 96, first |-> Name("cache_manager"), steps |-> <<<<">>", Edge("", [label |-> "Reads/Writes"])>>, <<">>", Name("inventory_cache")>>>>],
      (*  47 *) [op |-> "chain", line |-> 97, first |-> Name("event_publisher"), steps |-> <<<<">>", Edge("", [label |-> "Publishes events"])>>, <<">>", Name("msg_broker")>>>>],
      (*  48 *) [op |-> "export", line |-> 97],
      (*  49 *) [op |-> "print", line |-> 99]
    >> ]

\* src/architecture/diagrams/c4/c3 (Component)/notification-service/c3_notification_service_diagram.py
c3_notification_service_diagram ==
  [ file |-> "src/architecture/diagrams/c4/c3 (Component)/notification-service/c3_notification_service_diagram.py",
    name |-> "C3 Notification Service Component Diagram",
    filename |-> "c3_notification_service_diagram",
    outformat |-> "jpg",
    show |-> FALSE,
    direction |-> "LR",
    graph_attr |-> [fontsize |-> "20", bgcolor |-> "transparent", splines |-> "ortho", nodesep |-> "1.2", ranksep |-> "1.8", concentrate |-> "true", compound |-> "true"],
    node_attr |-> <<>>,
    edge_attr |-> <<>>,
    styles |-> <<>>,
    body |-> <<
      (*   1 *) [op |-> "diagram", line |-> 24, var |-> ""],
      (*   2 *) [op |-> "node", line |-> 27, var |-> "other_services", cls |-> "Server", label |-> "Other Microservices\n(Order, User, Product, etc.)", class |-> "", inst |-> <<>>],
      (*   3 *) [op |-> "node", line |-> 28, var |-> "admin", cls |-> "User", label |-> "Admin Users\n(Manages notification templates)", class |-> "", inst |-> <<>>],
      (*   4 *) [op |-> "node", line |-> 31, var |-> "notification_db", cls |-> "MongoDB", label |-> "Notification Database\n(MongoDB)", class |-> "", inst |-> <<>>],
      (*   5 *) [op |-> "node", line |-> 32, var |-> "msg_broker", cls |-> "Kafka", label |-> "Message Broker\n(e.g., Kafka, RabbitMQ)", class |-> "", inst |-> <<>>],
      (*   6 *) [op |-> "node", line |-> 33, var |-> "email_provider", cls |-> "SNS", label |-> "Email Service Provider\n(e.g., SendGrid, Mailchimp)", class |-> "", inst |-> <<>>],
      (*   7 *) [op |-> "node", line |-> 34, var |-> "sms_provider", cls |-> "SNS", label |-> "SMS Service Provider\n(e.g., Twilio)", class |-> "", inst |-> <<>>],
      (*   8 *) [op |-> "node", line |-> 35, var |-> "push_provider", cls |-> "SNS", label |-> "Push Notification Provider\n(e.g., Firebase FCM)", class |-> "", inst |-> <<>>],
      (*   9 *) [op |-> "with", line |-> 38, label |-> Constant("Notification Service Container\n(Handles emails, SMS, push notifications)"), graph_attr |-> <<>>],
      (*  10 *) [op |-> "node", line |-> 41, var |-> "api_interface", cls |-> "Server", label |-> "API Interface\n[Component: NestJS Controller]\nExposes notification endpoints", class |-> "", inst |-> <<>>],
      (*  11 *) [op |-> "node", line |-> 44, var |-> "notification_manager", cls |-> "Server", label |-> "Notification Manager\n[Component: NestJS Service]\nOrchestrates notification delivery", class |-> "", inst |-> <<>>],
      (*  12 *) [op |-> "node", line |-> 45, var |-> "template_engine", cls |-> "Server", label |-> "Template Engine\n[Component: Template Service]\nRenders notification content", class |-> "", inst |-> <<>>],
      (*  13 *) [op |-> "node", line |-> 46, var |-> "delivery_scheduler", cls |-> "Server", label |-> "Delivery Scheduler\n[Component: Queue Service]\nHandles timing and retries", class |-> "", inst |-> <<>>],
      (*  14 *) [op |-> "node", line |-> 49, var |-> "notification_templates", cls |-> "Server", label |-> "Notification Templates\n[Component: Domain Entities]\nEmail/SMS/Push templates", class |-> "", inst |-> <<>>],
      (*  15 *) [op |-> "node", line |-> 50, var |-> "notification_preferences", cls |-> "Server", label |-> "User Notification Preferences\n[Component: Domain Entities]\nUser channel/frequency settings", class |-> "", inst |-> <<>>],
      (*  16 *) [op |-> "node", line |-> 53, var |-> "notification_repository", cls |-> "Server", label |-> "Notification Repository\n[Component: Repository]\nStores notification records and templates", class |-> "", inst |-> <<>>],
      (*  17 *) [op |-> "node", line |-> 56, var |-> "event_consumer", cls |-> "Server", label |-> "Event Consumer\n[Component: Message Client]\nConsumes events from other services", class |-> "", inst |-> <<>>],
      (*  18 *) [op |-> "node", line |-> 57, var |-> "email_gateway", cls |-> "Server", label |-> "Email Gateway\n[Component: Integration Client]\nSends emails", class |-> "", inst |-> <<>>],
      (*  19 *) [op |-> "node", line |-> 58, var |-> "sms_gateway", cls |-> "Server", label |-> "SMS Gateway\n[Component: Integration Client]\nSends SMS messages", class |-> "", inst |-> <<>>],
      (*  20 *) [op |-> "node", line |-> 59, var |-> "push_gateway", cls |-> "Server", label |-> "Push Gateway\n[Component: Integration Client]\nSends push notifications", class |-> "", inst |-> <<>>],
      (*  21 *) [op |-> "chain", line |-> 62, first |-> Name("api_interface"), steps |-> <<<<">>", Edge("", [label |-> "Uses"])>>, <<">>", Name("notification_manager")>>>>],
      (*  22 *) [op |-> "chain", line |-> 63, first |-> Name("event_consumer"), steps |-> <<<<">>", Edge("", [label |-> "Triggers"])>>, <<">>", Name("notification_manager")>>>>],
      (*  23 *) [op |-> "chain", line |-> 65, first |-> Name("notification_manager"), steps |-> <<<<">>", Edge("", [label |-> "Renders with"])>>, <<">>", Name("template_engine")>>>>],
      (*  24 *) [op |-> "chain", line |-> 66, first |-> Name("notification_manager"), steps |-> <<<<">>", Edge("", [label |-> "Schedules via"])>>, <<">>", Name("delivery_scheduler")>>>>],
      (*  25 *) [op |-> "chain", line |-> 67, first |-> Name("notification_manager"), steps |-> <<<<">>", Edge("", [label |-> "Uses"])>>, <<">>", Name("notification_preferences")>>>>],
      (*  26 *) [op |-> "chain", line |-> 69, first |-> Name("template_engine"), steps |-> <<<<">>", Edge("", [label |-> "Uses"])>>, <<">>", Name("notification_templates")>>>>],
      (*  27 *) [op |-> "chain", line |-> 71, first |-> Name("delivery_scheduler"), steps |-> <<<<">>", Edge("", [label |-> "Sends via"])>>, <<">>", Name("email_gateway")>>>>],
      (*  28 *) [op |-> "chain", line |-> 72, first |-> Name("delivery_scheduler"), steps |-> <<<<">>", Edge("", [label |-> "Sends via"])>>, <<">>", Name("sms_gateway")>>>>],
      (*  29 *) [op |-> "chain", line |-> 73, first |-> Name("delivery_scheduler"), steps |-> <<<<">>", Edge("", [label |-> "Sends via"])>>, <<">>", Name("push_gateway")>>>>],
      (*  30 *) [op |-> "chain", line |-> 75, first |-> Name("notification_repository"), steps |-> <<<<">>", Edge("", [label |-> "Persists"])>>, <<">>", Name("notification_templates")>>>>],
      (*  31 *) [op |-> "chain", line |-> 76, first |-> Name("notification_repository"), steps |-> <<<<">>", Edge("", [label |-> "Persists"])>>, <<">>", Name("notification_preferences")>>>>],
      (*  32 *) [op |-> "exit", line |-> 76],
      (*  33 *) [op |-> "chain", line |-> 80, first |-> Name("other_services"), steps |-> <<<<">>", Edge("", [label |-> "Direct API calls"])>>, <<">>", Name("api_interface")>>>>],
      (*  34 *) [op |-> "chain", line |-> 81, first |-> Name("msg_broker"), steps |-> <<<<">>", Edge("", [label |-> "Events (OrderCreated, etc.)"])>>, <<">>", Name("event_consumer")>>>>],
      (*  35 *) [op |-> "chain", line |-> 82, first |-> Name("admin"), steps |-> <<<<">>", Edge("", [label |-> "Manages templates"])>>, <<">>", Name("api_interface")>>>>],
      (*  36 *) [op |-> "chain", line |-> 85, first |-> Name("notification_repository"), steps |-> <<<<">>", Edge("", [label |-> "Reads/Writes"])>>, <<">>", Name("notification_db")>>>>],
      (*  37 *) [op |-> "chain", line |-> 86, first |-> Name("email_gateway"), steps |-> <<<<">>", Edge("", [label |-> "Sends via"])>>, <<">>", Name("email_provider")>>>>],
      (*  38 *) [op |-> "chain", line |-> 87, first |-> Name("sms_gateway"), steps |-> <<<<">>", Edge("", [label |-> "Sends via"])>>, <<">>", Name("sms_provider")>>>>],
      (*  39 *) [op |-> "chain", line |-> 88, first |-> Name("push_gateway"), steps |-> <<<<">>", Edge("", [label |-> "Sends via"])>>, <<">>", Name("push_provider")>>>>],
      (*  40 *) [op |-> "export", line |-> 88],
      (*  41 *) [op |-> "print", line |-> 90]
    >> ]

\* src/architecture/diagrams/c4/c3 (Component)/order-service/c3_order_service_diagram.py
c3_order_service_diagram ==
  [ file |-> "src/architecture/diagrams/c4/c3 (Component)/order-service/c3_order_service_diagram.py",
    name |-> "C3 Order Service Component Diagram",
    filename |-> "c3_order_service_diagram",
    outformat |-> "jpg",
    show |-> FALSE,
    direction |-> "LR",
    graph_attr |-> [fontsize |-> "20", bgcolor |-> "transparent", splines |-> "ortho", nodesep |-> "1.2", ranksep |-> "1.8", concentrate |-> "true", compound |-> "true"],
    node_attr |-> <<>>,
    edge_attr |-> <<>>,
    styles |-> <<>>,
    body |-> <<
      (*   1 *) [op |-> "diagram", line |-> 23, var |-> ""],
      (*   2 *) [op |-> "node", line |-> 26, var |-> "api_gateway", cls |-> "Server", label |-> "API Gateway\n[External Container]", class |-> "", inst |-> <<>>],
      (*   3 *) [op |-> "node", line |-> 27, var |-> "payment_service", cls |-> "Server", label |-> "Payment Service\n[External Container]", class |-> "", inst |-> <<>>],
      (*   4 *) [op |-> "node", line |-> 28, var |-> "message_broker", cls |-> "Kafka", label |-> "Message Broker (RabbitMQ)\n[External Container]", class |-> "", inst |-> <<>>],
      (*   5 *) [op |-> "node", line |-> 29, var |-> "order_db", cls |-> "PostgreSQL", label |-> "Order DB (PostgreSQL)\n[External Container]", class |-> "", inst |-> <<>>],
      (*   6 *) [op |-> "with", line |-> 32, label |-> Constant("Order Service Container"), graph_attr |-> <<>>],
      (*   7 *) [op |-> "node", line |-> 36, var |-> "api_controller", cls |-> "Server", label |-> "Order API Controller\n[Component: NestJS Controller]\nHandles incoming HTTP requests for orders and carts", class |-> "", inst |-> <<>>],
      (*   8 *) [op |-> "node", line |-> 39, var |-> "app_service", cls |-> "Server", label |-> "Order Application Service\n[Component: NestJS Service]\nCore business logic for order creation, updates, and management", class |-> "", inst |-> <<>>],
      (*   9 *) [op |-> "node", line |-> 40, var |-> "cart_component", cls |-> "Server", label |-> "Cart Management Component\n[Component: NestJS Service/Module]\nManages shopping cart logic", class |-> "", inst |-> <<>>],
      (*  10 *) [op |-> "node", line |-> 43, var |-> "domain_entities", cls |-> "Server", label |-> "Order Domain Entities\n[Component: TypeORM Entities/Classes]\nRepresents Order, OrderItem, etc.", class |-> "", inst |-> <<>>],
      (*  11 *) [op |-> "node", line |-> 46, var |-> "order_repo", cls |-> "Server", label |-> "Order Repository\n[Component: TypeORM Repository]\nData access for order entities", class |-> "", inst |-> <<>>],
      (*  12 *) [op |-> "node", line |-> 49, var |-> "payment_client", cls |-> "Server", label |-> "Payment Service Client\n[Component: HTTP Client Wrapper]\nCommunicates with the Payment Service", class |-> "", inst |-> <<>>],
      (*  13 *) [op |-> "node", line |-> 50, var |-> "event_publisher", cls |-> "Server", label |-> "Event Publisher\n[Component: RabbitMQ Client Wrapper]\nPublishes domain events", class |-> "", inst |-> <<>>],
      (*  14 *) [op |-> "chain", line |-> 53, first |-> Name("api_controller"), steps |-> <<<<">>", Edge("", [label |-> "Routes to"])>>, <<">>", Name("app_service")>>>>],
      (*  15 *) [op |-> "chain", line |-> 54, first |-> Name("api_controller"), steps |-> <<<<">>", Edge("", [label |-> "Routes to"])>>, <<">>", Name("cart_component")>>>>],
      (*  16 *) [op |-> "chain", line |-> 56, first |-> Name("app_service"), steps |-> <<<<">>", Edge("", [label |-> "Uses"])>>, <<">>", Name("domain_entities")>>>>],
      (*  17 *) [op |-> "chain", line |-> 57, first |-> Name("app_service"), steps |-> <<<<">>", Edge("", [label |-> "Persists via"])>>, <<">>", Name("order_repo")>>>>],
      (*  18 *) [op |-> "chain", line |-> 58, first |-> Name("app_service"), steps |-> <<<<">>", Edge("", [label |-> "Requests payment"])>>, <<">>", Name("payment_client")>>>>],
      (*  19 *) [op |-> "chain", line |-> 59, first |-> Name("app_service"), steps |-> <<<<">>", Edge("", [label |-> "Publishes events"])>>, <<">>", Name("event_publisher")>>>>],
      (*  20 *) [op |-> "chain", line |-> 61, first |-> Name("cart_component"), steps |-> <<<<">>", Edge("", [label |-> "Uses"])>>, <<">>", Name("domain_entities")>>>>],
      (*  21 *) [op |-> "chain", line |-> 62, first |-> Name("cart_component"), steps |-> <<<<">>", Edge("", [label |-> "Persists via"])>>, <<">>", Name("order_repo")>>>>],
      (*  22 *) [op |-> "exit", line |-> 62],
      (*  23 *) [op |-> "chain", line |-> 65, first |-> Name("api_gateway"), steps |-> <<<<">>", Edge("", [label |-> "Routes HTTP requests to"])>>, <<">>", Name("api_controller")>>>>],
      (*  24 *) [op |-> "chain", line |-> 66, first |-> Name("order_repo"), steps |-> <<<<">>", Edge("", [label |-> "Reads/Writes [SQL]"])>>, <<">>", Name("order_db")>>>>],
      (*  25 *) [op |-> "chain", line |-> 67, first |-> Name("payment_client"), steps |-> <<<<">>", Edge("", [label |-> "Requests payment processing [HTTPS/JSON]"])>>, <<">>", Name("payment_service")>>>>],
      (*  26 *) [op |-> "chain", line |-> 68, first |-> Name("event_publisher"), steps |-> <<<<">>", Edge("", [label |-> "Publishes 'OrderCreated' etc. [AMQP]"])>>, <<">>", Name("message_broker")>>>>],
      (*  27 *) [op |-> "export", line |-> 68],
      (*  28 *) [op |-> "print", line |-> 70]
    >> ]

\* src/architecture/diagrams/c4/c3 (Component)/payment-service/c3_payment_service_diagram.py
c3_payment_service_diagram ==
  [ file |-> "src/architecture/diagrams/c4/c3 (Component)/payment-service/c3_payment_service_diagram.py",
    name |-> "C3 Payment Service Component Diagram",
    filename |-> "c3_payment_service_diagram",
    outformat |-> "jpg",
    show |-> FALSE,
    direction |-> "LR",
    graph_attr |-> [fontsize |-> "20", bgcolor |-> "transparent", splines |-> "ortho", nodesep |-> "1.0", ranksep |-> "1.5", concentrate |-> "true", compound |-> "true"],
    node_attr |-> <<>>,
    edge_attr |-> <<>>,
    styles |-> <<>>,
    body |-> <<
      (*   1 *) [op |-> "diagram", line |-> 25, var |-> ""],
      (*   2 *) [op |-> "node", line |-> 28, var |-> "order_service", cls |-> "Server", label |-> "Order Service", class |-> "", inst |-> <<>>],
      (*   3 *) [op |-> "node", line |-> 29, var |-> "admin_user", cls |-> "User", label |-> "Admin User/System\n(for refunds, configuration)", class |-> "", inst |-> <<>>],
      (*   4 *) [op |-> "node", line |-> 32, var |-> "payment_gateway_stripe", cls |-> "General", label |-> "External Payment Gateway\n(e.g., Stripe)", class |-> "", inst |-> <<>>],
      (*   5 *) [op |-> "node", line |-> 33, var |-> "payment_gateway_paypal", cls |-> "General", label |-> "External Payment Gateway\n(e.g., PayPal)", class |-> "", inst |-> <<>>],
      (*   6 *) [op |-> "node", line |-> 34, var |-> "fraud_service", cls |-> "KeyVaults", label |-> "External Fraud Detection Service\n(Optional)", class |-> "", inst |-> <<>>],
      (*   7 *) [op |-> "node", line |-> 35, var |-> "payment_db", cls |-> "PostgreSQL", label |-> "Payment Database\n(e.g., PostgreSQL, MySQL)", class |-> "", inst |-> <<>>],
      (*   8 *) [op |-> "node", line |-> 36, var |-> "msg_broker", cls |-> "Kafka", label |-> "Message Broker\n(e.g., Kafka, RabbitMQ)", class |-> "", inst |-> <<>>],
      (*   9 *) [op |-> "with", line |-> 39, label |-> Constant("Payment Service Container\n(Handles payment processing, gateway integrations)"), graph_attr |-> <<>>],
      (*  10 *) [op |-> "node", line |-> 42, var |-> "api_interface", cls |-> "Server", label |-> "API Interface\n(REST/gRPC)\nExposes payment operations", class |-> "", inst |-> <<>>],
      (*  11 *) [op |-> "node", line |-> 43, var |-> "processor", cls |-> "Server", label |-> "Payment Processing Component\nOrchestrates payment authorization, capture, refunds", class |-> "", inst |-> <<>>],
      (*  12 *) [op |-> "node", line |-> 44, var |-> "gateway_integration", cls |-> "Server", label |-> "Payment Gateway Integration Component\nAdapters for external payment gateways", class |-> "", inst |-> <<>>],
      (*  13 *) [op |-> "node", line |-> 45, var |-> "transaction_mgr", cls |-> "Server", label |-> "Transaction Management Component\nManages payment transaction lifecycle and history", class |-> "", inst |-> <<>>],
      (*  14 *) [op |-> "node", line |-> 46, var |-> "fraud_integration", cls |-> "Server", label |-> "Fraud Detection Integration Component\n(Optional) Connects to fraud screening services", class |-> "", inst |-> <<>>],
      (*  15 *) [op |-> "node", line |-> 47, var |-> "persistence", cls |-> "Server", label |-> "Data Persistence Component\nStores transaction data, gateway configs", class |-> "", inst |-> <<>>],
      (*  16 *) [op |-> "node", line |-> 48, var |-> "event_publishing", cls |-> "Server", label |-> "Event Publishing Component\nPublishes payment status events", class |-> "", inst |-> <<>>],
      (*  17 *) [op |-> "chain", line |-> 51, first |-> Name("api_interface"), steps |-> <<<<">>", Edge("", [label |-> "Requests"])>>, <<">>", Name("processor")>>>>],
      (*  18 *) [op |-> "chain", line |-> 52, first |-> Name("processor"), steps |-> <<<<">>", Edge("", [label |-> "Uses"])>>, <<">>", Name("gateway_integration")>>>>],
      (*  19 *) [op |-> "chain", line |-> 53, first |-> Name("processor"), steps |-> <<<<">>", Edge("", [label |-> "Updates/Reads"])>>, <<">>", Name("transaction_mgr")>>>>],
      (*  20 *) [op |-> "chain", line |-> 54, first |-> Name("processor"), steps |-> <<<<">>", Edge("", [label |-> "Consults (optional)"])>>, <<">>", Name("fraud_integration")>>>>],
      (*  21 *) [op |-> "chain", line |-> 55, first |-> Name("transaction_mgr"), steps |-> <<<<">>", Edge("", [label |-> "Uses"])>>, <<">>", Name("persistence")>>>>],
      (*  22 *) [op |-> "chain", line |-> 56, first |-> Name("processor"), steps |-> <<<<">>", Edge("", [label |-> "Publishes via"])>>, <<">>", Name("event_publishing")>>>>],
      (*  23 *) [op |-> "chain", line |-> 57, first |-> Name("gateway_integration"), steps |-> <<<<">>", Edge("", [label |-> "Stores config/logs via"])>>, <<">>", Name("persistence")>>>>],
      (*  24 *) [op |-> "exit", line |-> 57],
      (*  25 *) [op |-> "chain", line |-> 61, first |-> Name("order_service"), steps |-> <<<<">>", Edge("", [label |-> "Initiates Payment, Receives Status"])>>, <<">>", Name("api_interface")>>>>],
      (*  26 *) [op |-> "chain", line |-> 62, first |-> Name("admin_user"), steps |-> <<<<">>", Edge("", [label |-> "Manages Refunds, Configuration"])>>, <<">>", Name("api_interface")>>>>],
      (*  27 *) [op |-> "chain", line |-> 65, first |-> Name("gateway_integration"), steps |-> <<<<">>", Edge("", [label |-> "Processes via"])>>, <<">>", Name("payment_gateway_stripe")>>>>],
      (*  28 *) [op |-> "chain", line |-> 66, first |-> Name("gateway_integration"), steps |-> <<<<">>", Edge("", [label |-> "Processes via"])>>, <<">>", Name("payment_gateway_paypal")>>>>],
      (*  29 *) [op |-> "chain", line |-> 67, first |-> Name("fraud_integration"), steps |-> <<<<">>", Edge("", [label |-> "Checks transaction with"])>>, <<">>", Name("fraud_service")>>>>],
      (*  30 *) [op |-> "chain", line |-> 68, first |-> Name("persistence"), steps |-> <<<<">>", Edge("", [label |-> "Reads/Writes"])>>, <<">>", Name("payment_db")>>>>],
      (*  31 *) [op |-> "chain", line |-> 69, first |-> Name("event_publishing"), steps |-> <<<<">>", Edge("", [label |-> "Sends events to"])>>, <<">>", Name("msg_broker")>>>>],
      (*  32 *) [op |-> "export", line |-> 69],
      (*  33 *) [op |-> "print", line |-> 71]
    >> ]

\* src/architecture/diagrams/c4/c3 (Component)/product-service/c3_product_service_diagram.py
c3_product_service_diagram ==
  [ file |-> "src/architecture/diagrams/c4/c3 (Component)/product-service/c3_product_service_diagram.py",
    name |-> "C3 Product Service Component Diagram",
    filename |-> "c3_product_service_diagram",
    outformat |-> "jpg",
    show |-> FALSE,
    direction |-> "LR",
    graph_attr |-> [fontsize |-> "20", bgcolor |-> "transparent", splines |-> "ortho", nodesep |-> "1.0", ranksep |-> "1.5", concentrate |-> "true", compound |-> "true"],
    node_attr |-> <<>>,
    edge_attr |-> <<>>,
    styles |-> <<>>,
    body |-> <<
      (*   1 *) [op |-> "diagram", line |-> 24, var |-> ""],
      (*   2 *) [op |-> "node", line |-> 27, var |-> "frontend", cls |-> "Users", label |-> "Frontend Applications", class |-> "", inst |-> <<>>],
      (*   3 *) [op |-> "node", line |-> 28, var |-> "admin_portal", cls |-> "User", label |-> "Admin Portal", class |-> "", inst |-> <<>>],
      (*   4 *) [op |-> "node", line |-> 29, var |-> "order_service", cls |-> "Server", label |-> "Order Service", class |-> "", inst |-> <<>>],
      (*   5 *) [op |-> "node", line |-> 30, var |-> "recommendation_service", cls |-> "Server", label |-> "Recommendation Service", class |-> "", inst |-> <<>>],
      (*   6 *) [op |-> "node", line |-> 33, var |-> "product_db", cls |-> "PostgreSQL", label |-> "Product Database\n(e.g., PostgreSQL, MongoDB)", class |-> "", inst |-> <<>>],
      (*   7 *) [op |-> "node", line |-> 34, var |-> "search_index", cls |-> "Elasticsearch", label |-> "Search Index\n(e.g., Elasticsearch)", class |-> "", inst |-> <<>>],
      (*   8 *) [op |-> "node", line |-> 35, var |-> "msg_broker", cls |-> "Kafka", label |-> "Message Broker\n(e.g., Kafka, RabbitMQ)", class |-> "", inst |-> <<>>],
      (*   9 *) [op |-> "with", line |-> 38, label |-> Constant("Product Service Container\n(Manages product info, inventory, pricing, search)"), graph_attr |-> <<>>],
      (*  10 *) [op |-> "node", line |-> 41, var |-> "api_interface", cls |-> "Server", label |-> "API Interface\n(REST/GraphQL)\nExposes product functionalities", class |-> "", inst |-> <<>>],
      (*  11 *) [op |-> "node", line |-> 42, var |-> "catalog", cls |-> "Server", label |-> "Product Catalog Component\nCore logic for product details, categories, attributes", class |-> "", inst |-> <<>>],
      (*  12 *) [op |-> "node", line |-> 43, var |-> "inventory", cls |-> "Server", label |-> "Inventory Component\nTracks stock levels, availability", class |-> "", inst |-> <<>>],
      (*  13 *) [op |-> "node", line |-> 44, var |-> "pricing", cls |-> "Server", label |-> "Pricing Component\nCalculates prices, handles promotions", class |-> "", inst |-> <<>>],
      (*  14 *) [op |-> "node", line |-> 45, var |-> "search", cls |-> "Server", label |-> "Search Integration Component\nManages product indexing, interfaces with Search Index", class |-> "", inst |-> <<>>],
      (*  15 *) [op |-> "node", line |-> 46, var |-> "review", cls |-> "Server", label |-> "Review Management Component\nHandles product reviews", class |-> "", inst |-> <<>>],
      (*  16 *) [op |-> "node", line |-> 47, var |-> "persistence", cls |-> "Server", label |-> "Data Persistence Component\nDB interactions for product, inventory, reviews", class |-> "", inst |-> <<>>],
      (*  17 *) [op |-> "node", line |-> 48, var |-> "event_publishing", cls |-> "Server", label |-> "Event Publishing Component\nPublishes domain events", class |-> "", inst |-> <<>>],
      (*  18 *) [op |-> "chain", line |-> 51, first |-> Name("api_interface"), steps |-> <<<<">>", Edge("", [label |-> "Delegates to"])>>, <<">>", Name("catalog")>>>>],
      (*  19 *) [op |-> "chain", line |-> 52, first |-> Name("api_interface"), steps |-> <<<<">>", Edge("", [label |-> "Delegates to"])>>, <<">>", Name("inventory")>>>>],
      (*  20 *) [op |-> "chain", line |-> 53, first |-> Name("api_interface"), steps |-> <<<<">>", Edge("", [label |-> "Delegates to"])>>, <<">>", Name("pricing")>>>>],
      (*  21 *) [op |-> "chain", line |-> 54, first |-> Name("api_interface"), steps |-> <<<<">>", Edge("", [label |-> "Queries"])>>, <<">>", Name("search")>>>>],
      (*  22 *) [op |-> "chain", line |-> 55, first |-> Name("api_interface"), steps |-> <<<<">>", Edge("", [label |-> "Delegates to"])>>, <<">>", Name("review")>>>>],
      (*  23 *) [op |-> "chain", line |-> 57, first |-> Name("catalog"), steps |-> <<<<">>", Edge("", [label |-> "Uses for product data"])>>, <<">>", Name("persistence")>>>>],
      (*  24 *) [op |-> "chain", line |-> 58, first |-> Name("inventory"), steps |-> <<<<">>", Edge("", [label |-> "Uses for inventory data"])>>, <<">>", Name("persistence")>>>>],
      (*  25 *) [op |-> "chain", line |-> 59, first |-> Name("review"), steps |-> <<<<">>", Edge("", [label |-> "Uses for review data"])>>, <<">>", Name("persistence")>>>>],
      (*  26 *) [op |-> "chain", line |-> 60, first |-> Name("pricing"), steps |-> <<<<">>", Edge("", [label |-> "Uses for pricing rules (optional)"])>>, <<">>", Name("persistence")>>>>],
      (*  27 *) [op |-> "chain", line |-> 62, first |-> Name("catalog"), steps |-> <<<<">>", Edge("", [label |-> "Notifies for indexing"])>>, <<">>", Name("search")>>>>],
      (*  28 *) [op |-> "chain", line |-> 63, first |-> Name("inventory"), steps |-> <<<<">>", Edge("", [label |-> "Notifies stock for indexing"])>>, <<">>", Name("search")>>>>],
      (*  29 *) [op |-> "chain", line |-> 65, first |-> Name("catalog"), steps |-> <<<<">>", Edge("", [label |-> "Publishes changes"])>>, <<">>", Name("event_publishing")>>>>],
      (*  30 *) [op |-> "chain", line |-> 66, first |-> Name("inventory"), steps |-> <<<<">>", Edge("", [label |-> "Publishes stock updates"])>>, <<">>", Name("event_publishing")>>>>],
      (*  31 *) [op |-> "chain", line |-> 67, first |-> Name("pricing"), steps |-> <<<<">>", Edge("", [label |-> "Publishes price changes"])>>, <<">>", Name("event_publishing")>>>>],
      (*  32 *) [op |-> "chain", line |-> 68, first |-> Name("review"), steps |-> <<<<">>", Edge("", [label |-> "Publishes new reviews"])>>, <<">>", Name("event_publishing")>>>>],
      (*  33 *) [op |-> "exit", line |-> 68],
      (*  34 *) [op |-> "chain", line |-> 72, first |-> Name("frontend"), steps |-> <<<<">>", Edge("", [label |-> "Gets product info, search"])>>, <<">>", Name("api_interface")>>>>],
      (*  35 *) [op |-> "chain", line |-> 73, first |-> Name("admin_portal"), steps |-> <<<<">>", Edge("", [label |-> "Manages product catalog"])>>, <<">>", Name("api_interface")>>>>],
      (*  36 *) [op |-> "chain", line |-> 74, first |-> Name("order_service"), steps |-> <<<<">>", Edge("", [label |-> "Gets product details, prices"])>>, <<">>", Name("api_interface")>>>>],
      (*  37 *) [op |-> "chain", line |-> 75, first |-> Name("recommendation_service"), steps |-> <<<<">>", Edge("", [label |-> "Gets product metadata"])>>, <<">>", Name("api_interface")>>>>],
      (*  38 *) [op |-> "chain", line |-> 78, first |-> Name("persistence"), steps |-> <<<<">>", Edge("", [label |-> "Reads/Writes"])>>, <<">>", Name("product_db")>>>>],
      (*  39 *) [op |-> "chain", line |-> 79, first |-> Name("search"), steps |-> <<<<">>", Edge("", [label |-> "Indexes/Queries"])>>, <<">>", Name("search_index")>>>>],
      (*  40 *) [op |-> "chain", line |-> 80, first |-> Name("event_publishing"), steps |-> <<<<">>", Edge("", [label |-> "Sends events to"])>>, <<">>", Name("msg_broker")>>>>],
      (*  41 *) [op |-> "export", line |-> 80],
      (*  42 *) [op |-> "print", line |-> 82]
    >> ]

\* src/architecture/diagrams/c4/c3 (Component)/search-service/c3_search_service_diagram.py
c3_search_service_diagram ==
  [ file |-> "src/architecture/diagrams/c4/c3 (Component)/search-service/c3_search_service_diagram.py",
    name |-> "C3 Search Service Component Diagram",
    filename |-> "c3_search_service_diagram",
    outformat |-> "jpg",
    show |-> FALSE,
    direction |-> "LR",
    graph_attr |-> [fontsize |-> "20", bgcolor |-> "transparent", splines |-> "ortho", nodesep |-> "1.2", ranksep |-> "1.8", concentrate |-> "true", compound |-> "true"],
    node_attr |-> <<>>,
    edge_attr |-> <<>>,
    styles |-> <<>>,
    body |-> <<
      (*   1 *) [op |-> "diagram", line |-> 24, var |-> ""],
      (*   2 *) [op |-> "node", line |-> 27, var |-> "frontend", cls |-> "Users", label |-> "Frontend Applications", class |-> "", inst |-> <<>>],
      (*   3 *) [op |-> "node", line |-> 28, var |-> "product_service", cls |-> "Server", label |-> "Product Service", class |-> "", inst |-> <<>>],
      (*   4 *) [op |-> "node", line |-> 29, var |-> "inventory_service", cls |-> "Server", label |-> "Inventory Service", class |-> "", inst |-> <<>>],
      (*   5 *) [op |-> "node", line |-> 32, var |-> "search_config_db", cls |-> "MongoDB", label |-> "Search Configuration DB\n(MongoDB)", class |-> "", inst |-> <<>>],
      (*   6 *) [op |-> "node", line |-> 33, var |-> "msg_broker", cls |-> "Kafka", label |-> "Message Broker\n(e.g., Kafka, RabbitMQ)", class |-> "", inst |-> <<>>],
      (*   7 *) [op |-> "node", line |-> 34, var |-> "elasticsearch_cluster", cls |-> "Elasticsearch", label |-> "Elasticsearch Cluster", class |-> "", inst |-> <<>>],
      (*   8 *) [op |-> "with", line |-> 37, label |-> Constant("Search Service Container\n(Provides search capabilities across catalog)"), graph_attr |-> <<>>],
      (*   9 *) [op |-> "node", line |-> 40, var |-> "api_interface", cls |-> "Server", label |-> "Search API Interface\n[Component: NestJS Controller]\nExposes search endpoints", class |-> "", inst |-> <<>>],
      (*  10 *) [op |-> "node", line |-> 43, var |-> "search_orchestrator", cls |-> "Server", label |-> "Search Orchestrator\n[Component: NestJS Service]\nCoordinates search operations", class |-> "", inst |-> <<>>],
      (*  11 *) [op |-> "node", line |-> 44, var |-> "query_builder", cls |-> "Server", label |-> "Query Builder\n[Component: Query Service]\nBuilds Elasticsearch queries", class |-> "", inst |-> <<>>],
      (*  12 *) [op |-> "node", line |-> 45, var |-> "facet_manager", cls |-> "Server", label |-> "Facet Manager\n[Component: Filter Service]\nHandles filtering and faceted search", class |-> "", inst |-> <<>>],
      (*  13 *) [op |-> "node", line |-> 46, var |-> "result_processor", cls |-> "Server", label |-> "Result Processor\n[Component: Processor Service]\nTransforms and enriches results", class |-> "", inst |-> <<>>],
      (*  14 *) [op |-> "node", line |-> 49, var |-> "search_configuration", cls |-> "Server", label |-> "Search Configuration\n[Component: Domain Entities]\nDefines searchable attributes, boosts, etc.", class |-> "", inst |-> <<>>],
      (*  15 *) [op |-> "node", line |-> 52, var |-> "search_repository", cls |-> "Server", label |-> "Search Repository\n[Component: Repository]\nManages configuration storage", class |-> "", inst |-> <<>>],
      (*  16 *) [op |-> "node", line |-> 55, var |-> "index_manager", cls |-> "Server", label |-> "Index Manager\n[Component: Integration Service]\nManages Elasticsearch indexes", class |-> "", inst |-> <<>>],
      (*  17 *) [op |-> "node", line |-> 56, var |-> "event_consumer", cls |-> "Server", label |-> "Event Consumer\n[Component: Message Client]\nConsumes product/inventory events", class |-> "", inst |-> <<>>],
      (*  18 *) [op |-> "chain", line |-> 59, first |-> Name("api_interface"), steps |-> <<<<">>", Edge("", [label |-> "Uses"])>>, <<">>", Name("search_orchestrator")>>>>],
      (*  19 *) [op |-> "chain", line |-> 60, first |-> Name("event_consumer"), steps |-> <<<<">>", Edge("", [label |-> "Updates via"])>>, <<">>", Name("index_manager")>>>>],
      (*  20 *) [op |-> "chain", line |-> 62, first |-> Name("search_orchestrator"), steps |-> <<<<">>", Edge("", [label |-> "Uses"])>>, <<">>", Name("query_builder")>>>>],
      (*  21 *) [op |-> "chain", line |-> 63, first |-> Name("search_orchestrator"), steps |-> <<<<">>", Edge("", [label |-> "Uses"])>>, <<">>", Name("facet_manager")>>>>],
      (*  22 *) [op |-> "chain", line |-> 64, first |-> Name("search_orchestrator"), steps |-> <<<<">>", Edge("", [label |-> "Uses"])>>, <<">>", Name("result_processor")>>>>],
      (*  23 *) [op |-> "chain", line |-> 66, first |-> Name("query_builder"), steps |-> <<<<">>", Edge("", [label |-> "Configures using"])>>, <<">>", Name("search_configuration")>>>>],
      (*  24 *) [op |-> "chain", line |-> 67, first |-> Name("facet_manager"), steps |-> <<<<">>", Edge("", [label |-> "Configures using"])>>, <<">>", Name("search_configuration")>>>>],
      (*  25 *) [op |-> "chain", line |-> 69, first |-> Name("index_manager"), steps |-> <<<<">>", Edge("", [label |-> "Manages"])>>, <<">>", Name("search_configuration")>>>>],
      (*  26 *) [op |-> "chain", line |-> 70, first |-> Name("search_repository"), steps |-> <<<<">>", Edge("", [label |-> "Persists"])>>, <<">>", Name("search_configuration")>>>>],
      (*  27 *) [op |-> "exit", line |-> 70],
      (*  28 *) [op |-> "chain", line |-> 74, first |-> Name("frontend"), steps |-> <<<<">>", Edge("", [label |-> "Search requests"])>>, <<">>", Name("api_interface")>>>>],
      (*  29 *) [op |-> "chain", line |-> 75, first |-> Name("product_service"), steps |-> <<<<">>", Edge("", [label |-> "Direct index requests"])>>, <<">>", Name("api_interface")>>>>],
      (*  30 *) [op |-> "chain", line |-> 76, first |-> Name("msg_broker"), steps |-> <<<<">>", Edge("", [label |-> "Product/Inventory events"])>>, <<">>", Name("event_consumer")>>>>],
      (*  31 *) [op |-> "chain", line |-> 79, first |-> Name("search_repository"), steps |-> <<<<">>", Edge("", [label |-> "Reads/Writes"])>>, <<">>", Name("search_config_db")>>>>],
      (*  32 *) [op |-> "chain", line |-> 80, first |-> Name("query_builder"), steps |-> <<<<">>", Edge("", [label |-> "Queries"])>>, <<">>", Name("elasticsearch_cluster")>>>>],
      (*  33 *) [op |-> "chain", line |-> 81, first |-> Name("facet_manager"), steps |-> <<<<">>", Edge("", [label |-> "Queries"])>>, <<">>", Name("elasticsearch_cluster")>>>>],
      (*  34 *) [op |-> "chain", line |-> 82, first |-> Name("index_manager"), steps |-> <<<<">>", Edge("", [label |-> "Manages indexes"])>>, <<">>", Name("elasticsearch_cluster")>>>>],
      (*  35 *) [op |-> "export", line |-> 82],
      (*  36 *) [op |-> "print", line |-> 84]
    >> ]

\* src/architecture/diagrams/c4/c3 (Component)/user-service/c3_user_service_diagram.py
c3_user_service_diagram ==
  [ file |-> "src/architecture/diagrams/c4/c3 (Component)/user-service/c3_user_service_diagram.py",
    name |-> "C3 User Service Component Diagram",
    filename |-> "c3_user_service_diagram",
    outformat |-> "jpg",
    show |-> FALSE,
    direction |-> "LR",
    graph_attr |-> [fontsize |-> "20", bgcolor |-> "transparent", splines |-> "ortho", nodesep |-> "1.2", ranksep |-> "1.8", concentrate |-> "true", compound |-> "true"],
    node_attr |-> <<>>,
    edge_attr |-> <<>>,
    styles |-> <<>>,
    body |-> <<
      (*   1 *) [op |-> "diagram", line |-> 24, var |-> ""],
      (*   2 *) [op |-> "node", line |-> 27, var |-> "customer", cls |-> "Users", label |-> "Customers", class |-> "", inst |-> <<>>],
      (*   3 *) [op |-> "node", line |-> 28, var |-> "admin", cls |-> "User", label |-> "Admin Users", class |-> "", inst |-> <<>>],
      (*   4 *) [op |-> "node", line |-> 29, var |-> "frontend", cls |-> "Server", label |-> "Frontend Applications", class |-> "", inst |-> <<>>],
      (*   5 *) [op |-> "node", line |-> 30, var |-> "other_services", cls |-> "Server", label |-> "Other Microservices\n(Order, Product, etc.)", class |-> "", inst |-> <<>>],
      (*   6 *) [op |-> "node", line |-> 31, var |-> "identity_provider", cls |-> "Vault", label |-> "External Identity Provider\n(e.g., Auth0, Okta)", class |-> "", inst |-> <<>>],
      (*   7 *) [op |-> "node", line |-> 34, var |-> "user_db", cls |-> "PostgreSQL", label |-> "User Database\n(PostgreSQL)", class |-> "", inst |-> <<>>],
      (*   8 *) [op |-> "node", line |-> 35, var |-> "msg_broker", cls |-> "Kafka", label |-> "Message Broker\n(e.g., Kafka, RabbitMQ)", class |-> "", inst |-> <<>>],
      (*   9 *) [op |-> "with", line |-> 38, label |-> Constant("User Service Container\n(Manages user accounts, profiles, and authentication)"), graph_attr |-> <<>>],
      (*  10 *) [op |-> "node", line |-> 41, var |-> "api_interface", cls |-> "Server", label |-> "API Interface\n[Component: NestJS Controller]\nExposes user management endpoints", class |-> "", inst |-> <<>>],
      (*  11 *) [op |-> "node", line |-> 44, var |-> "auth_service", cls |-> "Server", label |-> "Authentication Service\n[Component: NestJS Service]\nHandles login, registration, token verification", class |-> "", inst |-> <<>>],
      (*  12 *) [op |-> "node", line |-> 45, var |-> "profile_service", cls |-> "Server", label |-> "Profile Management Service\n[Component: NestJS Service]\nManages user profile data", class |-> "", inst |-> <<>>],
      (*  13 *) [op |-> "node", line |-> 46, var |-> "preferences_service", cls |-> "Server", label |-> "User Preferences Service\n[Component: NestJS Service]\nManages user settings and preferences", class |-> "", inst |-> <<>>],
      (*  14 *) [op |-> "node", line |-> 49, var |-> "domain_entities", cls |-> "Server", label |-> "User Domain Entities\n[Component: TypeORM Entities]\nUser, Profile, Preferences classes", class |-> "", inst |-> <<>>],
      (*  15 *) [op |-> "node", line |-> 52, var |-> "user_repository", cls |-> "Server", label |-> "User Repository\n[Component: TypeORM Repository]\nData access for user entities", class |-> "", inst |-> <<>>],
      (*  16 *) [op |-> "node", line |-> 55, var |-> "auth_provider_client", cls |-> "Server", label |-> "Identity Provider Client\n[Component: OAuth/OIDC Client]\nIntegrates with external IdP", class |-> "", inst |-> <<>>],
      (*  17 *) [op |-> "node", line |-> 56, var |-> "event_publisher", cls |-> "Server", label |-> "Event Publisher\n[Component: Message Client]\nPublishes user-related events", class |-> "", inst |-> <<>>],
      (*  18 *) [op |-> "chain", line |-> 59, first |-> Name("api_interface"), steps |-> <<<<">>", Edge("", [label |-> "Delegates auth"])>>, <<">>", Name("auth_service")>>>>],
      (*  19 *) [op |-> "chain", line |-> 60, first |-> Name("api_interface"), steps |-> <<<<">>", Edge("", [label |-> "Delegates profile ops"])>>, <<">>", Name("profile_service")>>>>],
      (*  20 *) [op |-> "chain", line |-> 61, first |-> Name("api_interface"), steps |-> <<<<">>", Edge("", [label |-> "Delegates preferences"])>>, <<">>", Name("preferences_service")>>>>],
      (*  21 *) [op |-> "chain", line |-> 63, first |-> Name("auth_service"), steps |-> <<<<">>", Edge("", [label |-> "Uses"])>>, <<">>", Name("domain_entities")>>>>],
      (*  22 *) [op |-> "chain", line |-> 64, first |-> Name("auth_service"), steps |-> <<<<">>", Edge("", [label |-> "Authenticates via"])>>, <<">>", Name("auth_provider_client")>>>>],
      (*  23 *) [op |-> "chain", line |-> 66, first |-> Name("profile_service"), steps |-> <<<<">>", Edge("", [label |-> "Uses"])>>, <<">>", Name("domain_entities")>>>>],
      (*  24 *) [op |-> "chain", line |-> 67, first |-> Name("profile_service"), steps |-> <<<<">>", Edge("", [label |-> "Persists via"])>>, <<">>", Name("user_repository")>>>>],
      (*  25 *) [op |-> "chain", line |-> 68, first |-> Name("profile_service"), steps |-> <<<<">>", Edge("", [label |-> "Publishes events via"])>>, <<">>", Name("event_publisher")>>>>],
      (*  26 *) [op |-> "chain", line |-> 70, first |-> Name("preferences_service"), steps |-> <<<<">>", Edge("", [label |-> "Uses"])>>, <<">>", Name("domain_entities")>>>>],
      (*  27 *) [op |-> "chain", line |-> 71, first |-> Name("preferences_service"), steps |-> <<<<">>", Edge("", [label |-> "Persists via"])>>, <<">>", Name("user_repository")>>>>],
      (*  28 *) [op |-> "exit", line |-> 71],
      (*  29 *) [op |-> "chain", line |-> 75, first |-> Name("frontend"), steps |-> <<<<">>", Edge("", [label |-> "User operations (register, login, profile)"])>>, <<">>", Name("api_interface")>>>>],
      (*  30 *) [op |-> "chain", line |-> 76, first |-> Name("other_services"), steps |-> <<<<">>", Edge("", [label |-> "User validation, profile data"])>>, <<">>", Name("api_interface")>>>>],
      (*  31 *) [op |-> "chain", line |-> 79, first |-> Name("user_repository"), steps |-> <<<<">>", Edge("", [label |-> "Reads/Writes"])>>, <<">>", Name("user_db")>>>>],
      (*  32 *) [op |-> "chain", line |-> 80, first |-> Name("auth_provider_client"), steps |-> <<<<">>", Edge("", [label |-> "Authenticates via"])>>, <<">>", Name("identity_provider")>>>>],
      (*  33 *) [op |-> "chain", line |-> 81, first |-> Name("event_publisher"), steps |-> <<<<">>", Edge("", [label |-> "Publishes events"])>>, <<">>", Name("msg_broker")>>>>],
      (*  34 *) [op |-> "chain", line |-> 84, first |-> Name("customer"), steps |-> <<<<">>", Edge("", [label |-> "Uses via frontend"])>>, <<">>", Name("frontend")>>>>],
      (*  35 *) [op |-> "chain", line |-> 85, first |-> Name("admin"), steps |-> <<<<">>", Edge("", [label |-> "Manages users via"])>>, <<">>", Name("frontend")>>>>],
      (*  36 *) [op |-> "export", line |-> 85],
      (*  37 *) [op |-> "print", line |-> 87]
    >> ]

\* src/architecture/diagrams/communication-patterns/communication_styles_patterns_diagram.py
communication_styles_patterns_diagram ==
  [ file |-> "src/architecture/diagrams/communication-patterns/communication_styles_patterns_diagram.py",
    name |-> "Communication Styles and Patterns",
    filename |-> "communication_styles_patterns_diagram",
    outformat |-> "jpg",
    show |-> FALSE,
    direction |-> "TB",
    graph_attr |-> [fontsize |-> "18", bgcolor |-> "transparent", splines |-> "ortho", nodesep |-> "0.8", ranksep |-> "1.5", compound |-> "true"],
    node_attr |-> [fontsize |-> "12", fontname |-> "Sans-Serif", height |-> "1.0", width |-> "2.0"],
    edge_attr |-> [fontsize |-> "10", fontname |-> "Sans-Serif"],
    styles |-> [ sync_edge_attrs |-> [color |-> "#0078d7", style |-> "solid", penwidth |-> "2.0"],
                 async_edge_attrs |-> [color |-> "#ff8c00", style |-> "dashed", penwidth |-> "2.0"] ],
    body |-> <<
      (*   1 *) [op |-> "diagram", line |-> 39, var |-> ""],
      (*   2 *) [op |-> "node", line |-> 42, var |-> "gateway", cls |-> "APIGateway", label |-> "API Gateway", class |-> "", inst |-> <<>>],
      (*   3 *) [op |-> "node", line |-> 43, var |-> "broker", cls |-> "Kafka", label |-> "Message Broker", class |-> "", inst |-> <<>>],
      (*   4 *) [op |-> "with", line |-> 46, label |-> Constant("Internal Microservices"), graph_attr |-> <<>>],
      (*   5 *) [op |-> "node", line |-> 47, var |-> "user_service", cls |-> "Server", label |-> "User Service", class |-> "", inst |-> <<>>],
      (*   6 *) [op |-> "node", line |-> 48, var |-> "product_service", cls |-> "Server", label |-> "Product Service", class |-> "", inst |-> <<>>],
      (*   7 *) [op |-> "node", line |-> 49, var |-> "order_service", cls |-> "Server", label |-> "Order Service", class |-> "", inst |-> <<>>],
      (*   8 *) [op |-> "node", line |-> 50, var |-> "payment_service", cls |-> "Server", label |-> "Payment Service", class |-> "", inst |-> <<>>],
      (*   9 *) [op |-> "node", line |-> 51, var |-> "notification_service", cls |-> "Server", label |-> "Notification Service", class |-> "", inst |-> <<>>],
      (*  10 *) [op |-> "list", line |-> 54, var |-> "services_group1", names |-> <<"user_service", "product_service">>],
      (*  11 *) [op |-> "list", line |-> 55, var |-> "services_group2", names |-> <<"order_service", "payment_service", "notification_service">>],
      (*  12 *) [op |-> "exit", line |-> 55],
      (*  13 *) [op |-> "with", line |-> 59, label |-> Constant("External Systems"), graph_attr |-> <<>>],
      (*  14 *) [op |-> "node", line |-> 60, var |-> "idp", cls |-> "Vault", label |-> "Identity Provider (IdP)", class |-> "", inst |-> <<>>],
      (*  15 *) [op |-> "node", line |-> 61, var |-> "payment_gw", cls |-> "Server", label |-> "Payment Gateway (Ext.)", class |-> "", inst |-> <<>>],
      (*  16 *) [op |-> "node", line |-> 62, var |-> "email_svc", cls |-> "Blank", label |-> "Email Service (Ext.)", class |-> "", inst |-> <<>>],
      (*  17 *) [op |-> "node", line |-> 63, var |-> "shipping_api", cls |-> "Blank", label |-> "Shipping API (Ext.)", class |-> "", inst |-> <<>>],
      (*  18 *) [op |-> "list", line |-> 65, var |-> "external_group1", names |-> <<"idp", "payment_gw">>],
      (*  19 *) [op |-> "list", line |-> 66, var |-> "external_group2", names |-> <<"email_svc", "shipping_api">>],
      (*  20 *) [op |-> "exit", line |-> 66],
      (*  21 *) [op |-> "chain", line |-> 71, first |-> Name("gateway"), steps |-> <<<<">>", Edge("sync_edge_attrs", [label |-> "REST API Calls"])>>, <<">>", Name("user_service")>>>>],
      (*  22 *) [op |-> "chain", line |-> 72, first |-> Name("gateway"), steps |-> <<<<">>", Edge("sync_edge_attrs", [label |-> "REST API Calls"])>>, <<">>", Name("product_service")>>>>],
      (*  23 *) [op |-> "chain", line |-> 73, first |-> Name("gateway"), steps |-> <<<<">>", Edge("sync_edge_attrs", [label |-> "REST API Calls"])>>, <<">>", Name("order_service")>>>>],
      (*  24 *) [op |-> "chain", line |-> 74, first |-> Name("gateway"), steps |-> <<<<">>", Edge("sync_edge_attrs", [label |-> "REST API Calls"])>>, <<">>", Name("payment_service")>>>>],
      (*  25 *) [op |-> "chain", line |-> 77, first |-> Name("gateway"), steps |-> <<<<">>", Edge("sync_edge_attrs", [label |-> "Auth Validation"])>>, <<">>", Name("idp")>>>>],
      (*  26 *) [op |-> "chain", line |-> 80, first |-> Name("payment_service"), steps |-> <<<<">>", Edge("sync_edge_attrs", [label |-> "Process Payment (HTTPS)"])>>, <<">>", Name("payment_gw")>>>>],
      (*  27 *) [op |-> "chain", line |-> 81, first |-> Name("order_service"), steps |-> <<<<">>", Edge("sync_edge_attrs", [label |-> "Get Shipping Rates (HTTPS)"])>>, <<">>", Name("shipping_api")>>>>],
      (*  28 *) [op |-> "chain", line |-> 84, first |-> Name("user_service"), steps |-> <<<<">>", Edge("async_edge_attrs", [label |-> "Publishes UserRegistered"])>>, <<">>", Name("broker")>>>>],
      (*  29 *) [op |-> "chain", line |-> 85, first |-> Name("product_service"), steps |-> <<<<">>", Edge("async_edge_attrs", [label |-> "Publishes ProductUpdated"])>>, <<">>", Name("broker")>>>>],
      (*  30 *) [op |-> "chain", line |-> 86, first |-> Name("order_service"), steps |-> <<<<">>", Edge("async_edge_attrs", [label |-> "Publishes OrderCreated,\nOrderShipped"])>>, <<">>", Name("broker")>>>>],
      (*  31 *) [op |-> "chain", line |-> 87, first |-> Name("payment_service"), steps |-> <<<<">>", Edge("async_edge_attrs", [label |-> "Publishes PaymentProcessed"])>>, <<">>", Name("broker")>>>>],
      (*  32 *) [op |-> "chain", line |-> 90, first |-> Name("broker"), steps |-> <<<<">>", Edge("async_edge_attrs", [label |-> "Consumes All Events\n(for notifications)"])>>, <<">>", Name("notification_service")>>>>],
      (*  33 *) [op |-> "chain", line |-> 91, first |-> Name("broker"), steps |-> <<<<">>", Edge("async_edge_attrs", [label |-> "Consumes OrderCreated\n(e.g., for inventory/analytics)"])>>, <<">>", Name("product_service")>>>>],
      (*  34 *) [op |-> "chain", line |-> 92, first |-> Name("broker"), steps |-> <<<<">>", Edge("async_edge_attrs", [label |-> "Consumes PaymentProcessed\n(to update order status)"])>>, <<">>", Name("order_service")>>>>],
      (*  35 *) [op |-> "chain", line |-> 95, first |-> Name("notification_service"), steps |-> <<<<">>", Edge("async_edge_attrs", [label |-> "Sends Email (via API)"])>>, <<">>", Name("email_svc")>>>>],
      (*  36 *) [op |-> "export", line |-> 95],
      (*  37 *) [op |-> "print", line |-> 97]
    >> ]

\* src/architecture/diagrams/data-model/data_flow_diagram.py
data_flow_diagram ==
  [ file |-> "src/architecture/diagrams/data-model/data_flow_diagram.py",
    name |-> "E-Commerce Platform Data Flow Diagram",
    filename |-> "data_flow_diagram",
    outformat |-> "jpg",
    show |-> FALSE,
    direction |-> "LR",
    graph_attr |-> [splines |-> "ortho", nodesep |-> "0.6", ranksep |-> "0.8", fontsize |-> "18", fontname |-> "Arial", bgcolor |-> "white", concentrate |-> "false", compound |-> "true", pad |-> "0.75", rankdir |-> "LR", newrank |-> "true", overlap |-> "false", outputorder |-> "edgesfirst"],
    node_attr |-> [fontsize |-> "11", fontname |-> "Arial", margin |-> "0.2,0.1"],
    edge_attr |-> [fontsize |-> "9", fontname |-> "Arial", fontcolor |-> "#444444", penwidth |-> "1.2", constraint |-> "true", tailclip |-> "true", headclip |-> "true"],
    styles |-> [ entity_attrs |-> [shape |-> "oval", style |-> "filled", fillcolor |-> "#e6f2ff", color |-> "#1168bd", penwidth |-> "2.0"],
                 process_attrs |-> [shape |-> "box", style |-> "filled", fillcolor |-> "#fff8dc", color |-> "#ff8c00", penwidth |-> "2.0"],
                 datastore_attrs |-> [shape |-> "cylinder", style |-> "filled", fillcolor |-> "#e6ffe6", color |-> "#2d882d", penwidth |-> "2.0"],
                 external_attrs |-> [shape |-> "component", style |-> "filled", fillcolor |-> "#f2f2f2", color |-> "#333333", penwidth |-> "2.0"],
                 normal_edge |-> [color |-> "#555555", penwidth |-> "1.0"],
                 data_store_edge |-> [color |-> "#2d882d", penwidth |-> "1.2"],
                 external_edge |-> [color |-> "#1168bd", penwidth |-> "1.2"],
                 event_edge |-> [color |-> "#ff8c00", style |-> "dashed", penwidth |-> "1.2"] ],
    body |-> <<
      (*   1 *) [op |-> "diagram", line |-> 73, var |-> ""],
      (*   2 *) [op |-> "with", line |-> 77, label |-> Constant("External\nEntities"), graph_attr |-> [style |-> "dashed", color |-> "#1168bd", bgcolor |-> "#f0f5ff40", penwidth |-> "1.5"]],
      (*   3 *) [op |-> "node", line |-> 79, var |-> "user_entity", cls |-> "StartEnd", label |-> "Customer", class |-> "entity_attrs", inst |-> <<>>],
      (*   4 *) [op |-> "node", line |-> 80, var |-> "admin_entity", cls |-> "StartEnd", label |-> "Administrator", class |-> "entity_attrs", inst |-> <<>>],
      (*   5 *) [op |-> "exit", line |-> 80],
      (*   6 *) [op |-> "with", line |-> 83, label |-> Constant("Core Processes"), graph_attr |-> [style |-> "dashed", color |-> "#ff8c00", bgcolor |-> "#fff8f040", penwidth |-> "1.5"]],
      (*   7 *) [op |-> "with", line |-> 86, label |-> Constant("User Management"), graph_attr |-> [style |-> "dotted", color |-> "#ff8c00", bgcolor |-> "transparent"]],
      (*   8 *) [op |-> "node", line |-> 88, var |-> "auth_process", cls |-> "PredefinedProcess", label |-> "Authentication\nProcess", class |-> "process_attrs", inst |-> <<>>],
      (*   9 *) [op |-> "node", line |-> 89, var |-> "user_process", cls |-> "PredefinedProcess", label |-> "User Management\nProcess", class |-> "process_attrs", inst |-> <<>>],
      (*  10 *) [op |-> "exit", line |-> 89],
      (*  11 *) [op |-> "with", line |-> 92, label |-> Constant("Product & Cart"), graph_attr |-> [style |-> "dotted", color |-> "#ff8c00", bgcolor |-> "transparent"]],
      (*  12 *) [op |-> "node", line |-> 94, var |-> "catalog_process", cls |-> "PredefinedProcess", label |-> "Catalog Management\nProcess", class |-> "process_attrs", inst |-> <<>>],
      (*  13 *) [op |-> "node", line |-> 95, var |-> "cart_process", cls |-> "PredefinedProcess", label |-> "Cart Management\nProcess", class |-> "process_attrs", inst |-> <<>>],
      (*  14 *) [op |-> "exit", line |-> 95],
      (*  15 *) [op |-> "with", line |-> 98, label |-> Constant("Order Processing"), graph_attr |-> [style |-> "dotted", color |-> "#ff8c00", bgcolor |-> "transparent"]],
      (*  16 *) [op |-> "node", line |-> 100, var |-> "order_process", cls |-> "PredefinedProcess", label |-> "Order Management\nProcess", class |-> "process_attrs", inst |-> <<>>],
      (*  17 *) [op |-> "node", line |-> 101, var |-> "payment_process", cls |-> "PredefinedProcess", label |-> "Payment\nProcessing", class |-> "process_attrs", inst |-> <<>>],
      (*  18 *) [op |-> "node", line |-> 102, var |-> "fulfill_process", cls |-> "PredefinedProcess", label |-> "Order Fulfillment\nProcess", class |-> "process_attrs", inst |-> <<>>],
      (*  19 *) [op |-> "exit", line |-> 102],
      (*  20 *) [op |-> "node", line |-> 105, var |-> "notify_process", cls |-> "PredefinedProcess", label |-> "Notification\nProcess", class |-> "process_attrs", inst |-> <<>>],
      (*  21 *) [op |-> "exit", line |-> 105],
      (*  22 *) [op |-> "with", line |-> 107, label |-> Constant("Data\nStores"), graph_attr |-> [style |-> "dashed", color |-> "#2d882d", bgcolor |-> "#f0fff040", penwidth |-> "1.5"]],
      (*  23 *) [op |-> "node", line |-> 109, var |-> "user_db", cls |-> "Database", label |-> "User DB", class |-> "datastore_attrs", inst |-> <<>>],
      (*  24 *) [op |-> "node", line |-> 110, var |-> "product_db", cls |-> "Database", label |-> "Product DB", class |-> "datastore_attrs", inst |-> <<>>],
      (*  25 *) [op |-> "node", line |-> 111, var |-> "order_db", cls |-> "Database", label |-> "Order DB", class |-> "datastore_attrs", inst |-> <<>>],
      (*  26 *) [op |-> "node", line |-> 112, var |-> "payment_db", cls |-> "Database", label |-> "Payment DB", class |-> "datastore_attrs", inst |-> <<>>],
      (*  27 *) [op |-> "exit", line |-> 112],
      (*  28 *) [op |-> "with", line |-> 114, label |-> Constant("External\nSystems"), graph_attr |-> [style |-> "dashed", color |-> "#333333", bgcolor |-> "#f8f8f840", penwidth |-> "1.5"]],
      (*  29 *) [op |-> "node", line |-> 116, var |-> "idp", cls |-> "Document", label |-> "Identity\nProvider", class |-> "external_attrs", inst |-> <<>>],
      (*  30 *) [op |-> "node", line |-> 117, var |-> "payment_gw", cls |-> "Document", label |-> "Payment\nGateway", class |-> "external_attrs", inst |-> <<>>],
      (*  31 *) [op |-> "node", line |-> 118, var |-> "shipping_api", cls |-> "Document", label |-> "Shipping\nProvider API", class |-> "external_attrs", inst |-> <<>>],
      (*  32 *) [op |-> "node", line |-> 119, var |-> "email_service", cls |-> "Document", label |-> "Email\nService", class |-> "external_attrs", inst |-> <<>>],
      (*  33 *) [op |-> "exit", line |-> 119],
      (*  34 *) [op |-> "node", line |-> 122, var |-> "anchor1", cls |-> "StartEnd", label |-> "", class |-> "", inst |-> [shape |-> "point", width |-> "0.01", height |-> "0.01", style |-> "invis"]],
      (*  35 *) [op |-> "node", line |-> 123, var |-> "anchor2", cls |-> "StartEnd", label |-> "", class |-> "", inst |-> [shape |-> "point", width |-> "0.01", height |-> "0.01", style |-> "invis"]],
      (*  36 *) [op |-> "chain", line |-> 126, first |-> Name("user_entity"), steps |-> <<<<">>", Edge("normal_edge", [label |-> "Login"])>>, <<">>", Name("auth_process")>>>>],
      (*  37 *) [op |-> "chain", line |-> 127, first |-> Name("auth_process"), steps |-> <<<<">>", Edge("normal_edge", [label |-> "Auth token"])>>, <<">>", Name("user_entity")>>>>],
      (*  38 *) [op |-> "chain", line |-> 128, first |-> Name("auth_process"), steps |-> <<<<">>", Edge("external_edge", [label |-> "Verify"])>>, <<">>", Name("idp")>>>>],
      (*  39 *) [op |-> "chain", line |-> 129, first |-> Name("user_entity"), steps |-> <<<<">>", Edge("normal_edge", [label |-> "Register"])>>, <<">>", Name("user_process")>>>>],
      (*  40 *) [op |-> "chain", line |-> 130, first |-> Name("user_process"), steps |-> <<<<">>", Edge("data_store_edge", [label |-> "Store profile"])>>, <<">>", Name("user_db")>>>>],
      (*  41 *) [op |-> "chain", line |-> 133, first |-> Name("user_entity"), steps |-> <<<<">>", Edge("normal_edge", [label |-> "Browse"])>>, <<">>", Name("catalog_process")>>>>],
      (*  42 *) [op |-> "chain", line |-> 134, first |-> Name("catalog_process"), steps |-> <<<<">>", Edge("normal_edge", [label |-> "Products"])>>, <<">>", Name("user_entity")>>>>],
      (*  43 *) [op |-> "chain", line |-> 135, first |-> Name("catalog_process"), steps |-> <<<<">>", Edge("data_store_edge", [label |-> "Query"])>>, <<">>", Name("product_db")>>>>],
      (*  44 *) [op |-> "chain", line |-> 136, first |-> Name("admin_entity"), steps |-> <<<<">>", Edge("normal_edge", [label |-> "Manage"])>>, <<">>", Name("catalog_process")>>>>],
      (*  45 *) [op |-> "chain", line |-> 139, first |-> Name("user_entity"), steps |-> <<<<">>", Edge("normal_edge", [label |-> "Add item"])>>, <<">>", Name("cart_process")>>>>],
      (*  46 *) [op |-> "chain", line |-> 140, first |-> Name("cart_process"), steps |-> <<<<">>", Edge("normal_edge", [label |-> "Show cart"])>>, <<">>", Name("user_entity")>>>>],
      (*  47 *) [op |-> "chain", line |-> 141, first |-> Name("cart_process"), steps |-> <<<<">>", Edge("data_store_edge", [label |-> "Check stock"])>>, <<">>", Name("product_db")>>>>],
      (*  48 *) [op |-> "chain", line |-> 142, first |-> Name("cart_process"), steps |-> <<<<">>", Edge("data_store_edge", [label |-> "Save cart"])>>, <<">>", Name("order_db")>>>>],
      (*  49 *) [op |-> "chain", line |-> 145, first |-> Name("user_entity"), steps |-> <<<<">>", Edge("normal_edge", [label |-> "Place order", minlen |-> "2"])>>, <<">>", Name("order_process")>>>>],
      (*  50 *) [op |-> "chain", line |-> 146, first |-> Name("cart_process"), steps |-> <<<<">>", Edge("normal_edge", [label |-> "Cart data", minlen |-> "1"])>>, <<">>", Name("order_process")>>>>],
      (*  51 *) [op |-> "chain", line |-> 147, first |-> Name("order_process"), steps |-> <<<<">>", Edge("data_store_edge", [label |-> "Save order", minlen |-> "1"])>>, <<">>", Name("order_db")>>>>],
      (*  52 *) [op |-> "chain", line |-> 148, first |-> Name("order_process"), steps |-> <<<<">>", Edge("normal_edge", [label |-> "Confirm", minlen |-> "1"])>>, <<">>", Name("user_entity")>>>>],
      (*  53 *) [op |-> "chain", line |-> 149, first |-> Name("order_process"), steps |-> <<<<">>", Edge("normal_edge", [label |-> "Process payment", minlen |-> "1"])>>, <<">>", Name("payment_process")>>>>],
      (*  54 *) [op |-> "chain", line |-> 152, first |-> Name("payment_process"), steps |-> <<<<">>", Edge("external_edge", [label |-> "Auth request", minlen |-> "1"])>>, <<">>", Name("payment_gw")>>>>],
      (*  55 *) [op |-> "chain", line |-> 153, first |-> Name("payment_gw"), steps |-> <<<<">>", Edge("external_edge", [label |-> "Authorize", minlen |-> "1"])>>, <<">>", Name("payment_process")>>>>],
      (*  56 *) [op |-> "chain", line |-> 154, first |-> Name("payment_process"), steps |-> <<<<">>", Edge("data_store_edge", [label |-> "Record", minlen |-> "1"])>>, <<">>", Name("payment_db")>>>>],
      (*  57 *) [op |-> "chain", line |-> 155, first |-> Name("payment_process"), steps |-> <<<<">>", Edge("normal_edge", [label |-> "Status", minlen |-> "1"])>>, <<">>", Name("order_process")>>>>],
      (*  58 *) [op |-> "chain", line |-> 158, first |-> Name("order_process"), steps |-> <<<<">>", Edge("event_edge", [label |-> "Order created", minlen |-> "1"])>>, <<">>", Name("notify_process")>>>>],
      (*  59 *) [op |-> "chain", line |-> 159, first |-> Name("payment_process"), steps |-> <<<<">>", Edge("event_edge", [label |-> "Payment complete", minlen |-> "1"])>>, <<">>", Name("notify_process")>>>>],
      (*  60 *) [op |-> "chain", line |-> 162, first |-> Name("admin_entity"), steps |-> <<<<">>", Edge("normal_edge", [label |-> "Manage", minlen |-> "1"])>>, <<">>", Name("fulfill_process")>>>>],
      (*  61 *) [op |-> "chain", line |-> 163, first |-> Name("fulfill_process"), steps |-> <<<<">>", Edge("data_store_edge", [label |-> "Order info", minlen |-> "1"])>>, <<">>", Name("order_db")>>>>],
      (*  62 *) [op |-> "chain", line |-> 164, first |-> Name("fulfill_process"), steps |-> <<<<">>", Edge("data_store_edge", [label |-> "Update status", minlen |-> "1"])>>, <<">>", Name("order_db")>>>>],
      (*  63 *) [op |-> "chain", line |-> 165, first |-> Name("fulfill_process"), steps |-> <<<<">>", Edge("external_edge", [label |-> "Ship request", minlen |-> "1"])>>, <<">>", Name("shipping_api")>>>>],
      (*  64 *) [op |-> "chain", line |-> 166, first |-> Name("shipping_api"), steps |-> <<<<">>", Edge("external_edge", [label |-> "Ship label", minlen |-> "1"])>>, <<">>", Name("fulfill_process")>>>>],
      (*  65 *) [op |-> "chain", line |-> 169, first |-> Name("order_process"), steps |-> <<<<">>", Edge("data_store_edge", [label |-> "Update inventory", minlen |-> "1"])>>, <<">>", Name("product_db")>>>>],
      (*  66 *) [op |-> "chain", line |-> 172, first |-> Name("fulfill_process"), steps |-> <<<<">>", Edge("event_edge", [label |-> "Ship event", minlen |-> "1"])>>, <<">>", Name("notify_process")>>>>],
      (*  67 *) [op |-> "chain", line |-> 173, first |-> Name("notify_process"), steps |-> <<<<">>", Edge("external_edge", [label |-> "Send email", minlen |-> "1"])>>, <<">>", Name("email_service")>>>>],
      (*  68 *) [op |-> "chain", line |-> 174, first |-> Name("email_service"), steps |-> <<<<">>", Edge("external_edge", [label |-> "Deliver", minlen |-> "1"])>>, <<">>", Name("user_entity")>>>>],
      (*  69 *) [op |-> "chain", line |-> 177, first |-> Name("anchor1"), steps |-> <<<<">>", Edge("", [style |-> "invis", constraint |-> "true"])>>, <<">>", Name("order_process")>>>>],
      (*  70 *) [op |-> "chain", line |-> 178, first |-> Name("anchor1"), steps |-> <<<<">>", Edge("", [style |-> "invis", constraint |-> "true"])>>, <<">>", Name("cart_process")>>>>],
      (*  71 *) [op |-> "chain", line |-> 179, first |-> Name("anchor2"), steps |-> <<<<">>", Edge("", [style |-> "invis", constraint |-> "true"])>>, <<">>", Name("payment_db")>>>>],
      (*  72 *) [op |-> "chain", line |-> 180, first |-> Name("anchor2"), steps |-> <<<<">>", Edge("", [style |-> "invis", constraint |-> "true"])>>, <<">>", Name("product_db")>>>>],
      (*  73 *) [op |-> "export", line |-> 180],
      (*  74 *) [op |-> "print", line |-> 182],
      (*  75 *) [op |-> "print", line |-> 183],
      (*  76 *) [op |-> "print", line |-> 184],
      (*  77 *) [op |-> "print", line |-> 185],
      (*  78 *) [op |-> "print", line |-> 186],
      (*  79 *) [op |-> "print", line |-> 187],
      (*  80 *) [op |-> "print", line |-> 188],
      (*  81 *) [op |-> "print", line |-> 189],
      (*  82 *) [op |-> "print", line |-> 190]
    >> ]

\* src/architecture/diagrams/deployment/aws_eks_deployment_diagram.py
aws_eks_deployment_diagram ==
  [ file |-> "src/architecture/diagrams/deployment/aws_eks_deployment_diagram.py",
    name |-> "AWS EKS Deployment - E-commerce Platform",
    filename |-> "aws_eks_deployment_diagram",
    outformat |-> "jpg",
    show |-> FALSE,
    direction |-> "TB",
    graph_attr |-> <<>>,
    node_attr |-> <<>>,
    edge_attr |-> <<>>,
    styles |-> <<>>,
    body |-> <<
      (*   1 *) [op |-> "diagram", line |-> 31, var |-> "diag"],
      (*   2 *) [op |-> "node", line |-> 32, var |-> "user", cls |-> "User", label |-> "End User (Web/Mobile)", class |-> "", inst |-> <<>>],
      (*   3 *) [op |-> "with", line |-> 34, label |-> Constant("AWS Cloud"), graph_attr |-> <<>>],
      (*   4 *) [op |-> "with", line |-> 35, label |-> Constant("Region (e.g., us-east-1)"), graph_attr |-> <<>>],
      (*   5 *) [op |-> "node", line |-> 36, var |-> "ecr", cls |-> "ECR", label |-> "Elastic Container Registry", class |-> "", inst |-> <<>>],
      (*   6 *) [op |-> "node", line |-> 37, var |-> "s3_config_backups", cls |-> "S3", label |-> "Config/Backups", class |-> "", inst |-> <<>>],
      (*   7 *) [op |-> "node", line |-> 39, var |-> "github_actions", cls |-> "GithubActions", label |-> "GitHub Actions CI/CD", class |-> "", inst |-> <<>>],
      (*   8 *) [op |-> "with", line |-> 41, label |-> Constant("VPC"), graph_attr |-> <<>>],
      (*   9 *) [op |-> "node", line |-> 42, var |-> "igw", cls |-> "InternetGateway", label |-> "Internet Gateway", class |-> "", inst |-> <<>>],
      (*  10 *) [op |-> "node", line |-> 43, var |-> "nat_gw", cls |-> "NATGateway", label |-> "NAT Gateway", class |-> "", inst |-> <<>>],
      (*  11 *) [op |-> "with", line |-> 45, label |-> Constant("Public Subnets"), graph_attr |-> <<>>],
      (*  12 *) [op |-> "node", line |-> 46, var |-> "alb", cls |-> "ELB", label |-> "Application Load Balancer", class |-> "", inst |-> <<>>],
      (*  13 *) [op |-> "exit", line |-> 46],
      (*  14 *) [op |-> "with", line |-> 48, label |-> Constant("Private Subnets"), graph_attr |-> <<>>],
      (*  15 *) [op |-> "with", line |-> 49, label |-> Constant("EKS Cluster (Managed Kubernetes)"), graph_attr |-> <<>>],
      (*  16 *) [op |-> "node", line |-> 50, var |-> "eks_control_plane", cls |-> "EKS", label |-> "EKS Control Plane", class |-> "", inst |-> <<>>],
      (*  17 *) [op |-> "with", line |-> 52, label |-> Constant("Kubernetes Worker Nodes (EC2 Instances)"), graph_attr |-> <<>>],
      (*  18 *) [op |-> "cluster", line |-> 53, var |-> "nodes_group", label |-> Constant("Nodes Group"), graph_attr |-> [bgcolor |-> "transparent"]],
      (*  19 *) [op |-> "enter", line |-> 54, var |-> "nodes_group"],
      (*  20 *) [op |-> "nodes", line |-> 55, var |-> "nodes", items |-> <<[cls |-> "EC2", label |-> "Worker Node 1", class |-> "", inst |-> <<>>], [cls |-> "EC2", label |-> "Worker Node 2", class |-> "", inst |-> <<>>], [cls |-> "EC2", label |-> "Worker Node 3", class |-> "", inst |-> <<>>]>>],
      (*  21 *) [op |-> "exit", line |-> 59],
      (*  22 *) [op |-> "with", line |-> 61, label |-> Constant("Observability Stack"), graph_attr |-> <<>>],
      (*  23 *) [op |-> "node", line |-> 62, var |-> "prometheus", cls |-> "Prometheus", label |-> "Prometheus", class |-> "", inst |-> <<>>],
      (*  24 *) [op |-> "node", line |-> 63, var |-> "grafana", cls |-> "Grafana", label |-> "Grafana", class |-> "", inst |-> <<>>],
      (*  25 *) [op |-> "node", line |-> 64, var |-> "alertmanager", cls |-> "Prometheus", label |-> "Alertmanager", class |-> "", inst |-> <<>>],
      (*  26 *) [op |-> "node", line |-> 65, var |-> "jaeger_collector", cls |-> "Jaeger", label |-> "Jaeger Collector", class |-> "", inst |-> <<>>],
      (*  27 *) [op |-> "node", line |-> 66, var |-> "jaeger_query", cls |-> "Jaeger", label |-> "Jaeger Query", class |-> "", inst |-> <<>>],
      (*  28 *) [op |-> "node", line |-> 67, var |-> "fluentd_ds", cls |-> "Deployment", label |-> "FluentBit DaemonSet", class |-> "", inst |-> <<>>],
      (*  29 *) [op |-> "for", line |-> 69, var |-> "node_instance", iter |-> Name("nodes"), end |-> 31],
      (*  30 *) [op |-> "chain", line |-> 70, first |-> Name("node_instance"), steps |-> <<<<">>", Edge("", [style |-> "dotted", label |-> "logs"])>>, <<">>", Name("fluentd_ds")>>>>],
      (*  31 *) [op |-> "endfor", line |-> 70, start |-> 29],
      (*  32 *) [op |-> "chain", line |-> 72, first |-> Name("eks_control_plane"), steps |-> <<<<">>", Edge("", [color |-> "grey", style |-> "dashed"])>>, <<">>", List(<<"prometheus", "grafana", "jaeger_query">>)>>>>],
      (*  33 *) [op |-> "exit", line |-> 72],
      (*  34 *) [op |-> "with", line |-> 74, label |-> Constant("Core Services Namespace"), graph_attr |-> <<>>],
      (*  35 *) [op |-> "with", line |-> 76, label |-> Constant("User Service"), graph_attr |-> <<>>],
      (*  36 *) [op |-> "node", line |-> 77, var |-> "user_svc_deploy", cls |-> "Deployment", label |-> "Deployment", class |-> "", inst |-> <<>>],
      (*  37 *) [op |-> "nodes", line |-> 78, var |-> "user_svc_pods", items |-> <<[cls |-> "Pod", label |-> "Pod 1", class |-> "", inst |-> <<>>], [cls |-> "Pod", label |-> "Pod 2", class |-> "", inst |-> <<>>]>>],
      (*  38 *) [op |-> "node", line |-> 79, var |-> "user_svc_service", cls |-> "Service", label |-> "Service (ClusterIP)", class |-> "", inst |-> <<>>],
      (*  39 *) [op |-> "node", line |-> 80, var |-> "user_svc_hpa", cls |-> "HPA", label |-> "HPA", class |-> "", inst |-> <<>>],
      (*  40 *) [op |-> "chain", line |-> 81, first |-> Name("user_svc_deploy"), steps |-> <<<<">>", Name("user_svc_pods")>>>>],
      (*  41 *) [op |-> "chain", line |-> 82, first |-> Name("user_svc_service"), steps |-> <<<<">>", Name("user_svc_deploy")>>>>],
      (*  42 *) [op |-> "chain", line |-> 83, first |-> Name("user_svc_deploy"), steps |-> <<<<">>", Name("user_svc_hpa")>>>>],
      (*  43 *) [op |-> "for", line |-> 84, var |-> "pod_instance", iter |-> Name("user_svc_pods"), end |-> 48],
      (*  44 *) [op |-> "with", line |-> 85, label |-> Attribute("pod_instance", "label"), graph_attr |-> [bgcolor |-> "transparent", style |-> "dotted", labeljust |-> "l", labelloc |-> "b"]],
      (*  45 *) [op |-> "node", line |-> 86, var |-> "nestjs_app", cls |-> "Nodejs", label |-> "NestJS App", class |-> "", inst |-> <<>>],
      (*  46 *) [op |-> "chain", line |-> 87, first |-> Name("pod_instance"), steps |-> <<<<"-", Name("nestjs_app")>>>>],
      (*  47 *) [op |-> "exit", line |-> 87],
      (*  48 *) [op |-> "endfor", line |-> 87, start |-> 43],
      (*  49 *) [op |-> "exit", line |-> 87],
      (*  50 *) [op |-> "with", line |-> 90, label |-> Constant("Product Service"), graph_attr |-> <<>>],
      (*  51 *) [op |-> "node", line |-> 91, var |-> "product_svc_deploy", cls |-> "Deployment", label |-> "Deployment", class |-> "", inst |-> <<>>],
      (*  52 *) [op |-> "nodes", line |-> 92, var |-> "product_svc_pods", items |-> <<[cls |-> "Pod", label |-> "Pod 1", class |-> "", inst |-> <<>>], [cls |-> "Pod", label |-> "Pod 2", class |-> "", inst |-> <<>>]>>],
      (*  53 *) [op |-> "node", line |-> 93, var |-> "product_svc_service", cls |-> "Service", label |-> "Service (ClusterIP)", class |-> "", inst |-> <<>>],
      (*  54 *) [op |-> "node", line |-> 94, var |-> "product_svc_hpa", cls |-> "HPA", label |-> "HPA", class |-> "", inst |-> <<>>],
      (*  55 *) [op |-> "chain", line |-> 95, first |-> Name("product_svc_deploy"), steps |-> <<<<">>", Name("product_svc_pods")>>>>],
      (*  56 *) [op |-> "chain", line |-> 96, first |-> Name("product_svc_service"), steps |-> <<<<">>", Name("product_svc_deploy")>>>>],
      (*  57 *) [op |-> "chain", line |-> 97, first |-> Name("product_svc_deploy"), steps |-> <<<<">>", Name("product_svc_hpa")>>>>],
      (*  58 *) [op |-> "for", line |-> 98, var |-> "pod_instance", iter |-> Name("product_svc_pods"), end |-> 63],
      (*  59 *) [op |-> "with", line |-> 99, label |-> Attribute("pod_instance", "label"), graph_attr |-> [bgcolor |-> "transparent", style |-> "dotted", labeljust |-> "l", labelloc |-> "b"]],
      (*  60 *) [op |-> "node", line |-> 100, var |-> "nestjs_app", cls |-> "Nodejs", label |-> "NestJS App", class |-> "", inst |-> <<>>],
      (*  61 *) [op |-> "chain", line |-> 101, first |-> Name("pod_instance"), steps |-> <<<<"-", Name("nestjs_app")>>>>],
      (*  62 *) [op |-> "exit", line |-> 101],
      (*  63 *) [op |-> "endfor", line |-> 101, start |-> 58],
      (*  64 *) [op |-> "exit", line |-> 101],
      (*  65 *) [op |-> "with", line |-> 104, label |-> Constant("Order Service"), graph_attr |-> <<>>],
      (*  66 *) [op |-> "node", line |-> 105, var |-> "order_svc_deploy", cls |-> "Deployment", label |-> "Deployment", class |-> "", inst |-> <<>>],
      (*  67 *) [op |-> "nodes", line |-> 106, var |-> "order_svc_pods", items |-> <<[cls |-> "Pod", label |-> "Pod 1", class |-> "", inst |-> <<>>], [cls |-> "Pod", label |-> "Pod 2", class |-> "", inst |-> <<>>]>>],
      (*  68 *) [op |-> "node", line |-> 107, var |-> "order_svc_service", cls |-> "Service", label |-> "Service (ClusterIP)", class |-> "", inst |-> <<>>],
      (*  69 *) [op |-> "node", line |-> 108, var |-> "order_svc_hpa", cls |-> "HPA", label |-> "HPA", class |-> "", inst |-> <<>>],
      (*  70 *) [op |-> "chain", line |-> 109, first |-> Name("order_svc_deploy"), steps |-> <<<<">>", Name("order_svc_pods")>>>>],
      (*  71 *) [op |-> "chain", line |-> 110, first |-> Name("order_svc_service"), steps |-> <<<<">>", Name("order_svc_deploy")>>>>],
      (*  72 *) [op |-> "chain", line |-> 111, first |-> Name("order_svc_deploy"), steps |-> <<<<">>", Name("order_svc_hpa")>>>>],
      (*  73 *) [op |-> "for", line |-> 112, var |-> "pod_instance", iter |-> Name("order_svc_pods"), end |-> 78],
      (*  74 *) [op |-> "with", line |-> 113, label |-> Attribute("pod_instance", "label"), graph_attr |-> [bgcolor |-> "transparent", style |-> "dotted", labeljust |-> "l", labelloc |-> "b"]],
      (*  75 *) [op |-> "node", line |-> 114, var |-> "nestjs_app", cls |-> "Nodejs", label |-> "NestJS App", class |-> "", inst |-> <<>>],
      (*  76 *) [op |-> "chain", line |-> 115, first |-> Name("pod_instance"), steps |-> <<<<"-", Name("nestjs_app")>>>>],
      (*  77 *) [op |-> "exit", line |-> 115],
      (*  78 *) [op |-> "endfor", line |-> 115, start |-> 73],
      (*  79 *) [op |-> "exit", line |-> 115],
      (*  80 *) [op |-> "exit", line |-> 115],
      (*  81 *) [op |-> "with", line |-> 117, label |-> Constant("Messaging Namespace"), graph_attr |-> <<>>],
      (*  82 *) [op |-> "with", line |-> 118, label |-> Constant("RabbitMQ Cluster"), graph_attr |-> <<>>],
      (*  83 *) [op |-> "node", line |-> 119, var |-> "rabbitmq_sts", cls |-> "StatefulSet", label |-> "StatefulSet", class |-> "", inst |-> <<>>],
      (*  84 *) [op |-> "nodes", line |-> 120, var |-> "rabbitmq_pods", items |-> <<[cls |-> "Pod", label |-> "Pod 1", class |-> "", inst |-> <<>>], [cls |-> "Pod", label |-> "Pod 2", class |-> "", inst |-> <<>>]>>],
      (*  85 *) [op |-> "node", line |-> 121, var |-> "rabbitmq_service", cls |-> "Service", label |-> "Service (Headless)", class |-> "", inst |-> <<>>],
      (*  86 *) [op |-> "chain", line |-> 122, first |-> Name("rabbitmq_sts"), steps |-> <<<<">>", Name("rabbitmq_pods")>>>>],
      (*  87 *) [op |-> "chain", line |-> 123, first |-> Name("rabbitmq_service"), steps |-> <<<<">>", Name("rabbitmq_sts")>>>>],
      (*  88 *) [op |-> "exit", line |-> 123],
      (*  89 *) [op |-> "exit", line |-> 123],
      (*  90 *) [op |-> "with", line |-> 125, label |-> Constant("Kubernetes System & Config"), graph_attr |-> <<>>],
      (*  91 *) [op |-> "node", line |-> 126, var |-> "kube_api", cls |-> "APIServer", label |-> "Kube API Server (Control Plane)", class |-> "", inst |-> <<>>],
      (*  92 *) [op |-> "node", line |-> 127, var |-> "config_maps", cls |-> "StorageClass", label |-> "ConfigMaps", class |-> "", inst |-> <<>>],
      (*  93 *) [op |-> "node", line |-> 128, var |-> "secrets", cls |-> "StorageClass", label |-> "Sealed Secrets", class |-> "", inst |-> <<>>],
      (*  94 *) [op |-> "chain", line |-> 129, first |-> Name("eks_control_plane"), steps |-> <<<<"-", Name("kube_api")>>>>],
      (*  95 *) [op |-> "exit", line |-> 129],
      (*  96 *) [op |-> "exit", line |-> 129],
      (*  97 *) [op |-> "exit", line |-> 129],
      (*  98 *) [op |-> "with", line |-> 132, label |-> Constant("Databases (Managed AWS Services)"), graph_attr |-> <<>>],
      (*  99 *) [op |-> "node", line |-> 133, var |-> "user_db", cls |-> "RDS", label |-> "User DB (Postgres)", class |-> "", inst |-> <<>>],
      (* 100 *) [op |-> "node", line |-> 134, var |-> "product_db", cls |-> "RDS", label |-> "Product DB (Postgres)", class |-> "", inst |-> <<>>],
      (* 101 *) [op |-> "node", line |-> 135, var |-> "order_db", cls |-> "RDS", label |-> "Order DB (Postgres)", class |-> "", inst |-> <<>>],
      (* 102 *) [op |-> "node", line |-> 136, var |-> "cache_redis", cls |-> "ElastiCache", label |-> "Cache (Redis)", class |-> "", inst |-> <<>>],
      (* 103 *) [op |-> "exit", line |-> 136],
      (* 104 *) [op |-> "chain", line |-> 139, first |-> Name("user"), steps |-> <<<<">>", Name("alb")>>, <<">>", List(<<"user_svc_service", "product_svc_service", "order_svc_service">>)>>>>],
      (* 105 *) [op |-> "chain", line |-> 140, first |-> Name("igw"), steps |-> <<<<">>", Name("alb")>>>>],
      (* 106 *) [op |-> "for", line |-> 142, var |-> "node_instance", iter |-> Name("nodes"), end |-> 108],
      (* 107 *) [op |-> "chain", line |-> 143, first |-> Name("nat_gw"), steps |-> <<<<"<<", Edge("", [label |-> "egress"])>>, <<"<<", Name("node_instance")>>>>],
      (* 108 *) [op |-> "endfor", line |-> 143, start |-> 106],
      (* 109 *) [op |-> "chain", line |-> 146, first |-> Name("user_svc_deploy"), steps |-> <<<<">>", Edge("", [label |-> "reads/writes"])>>, <<">>", Name("user_db")>>>>],
      (* 110 *) [op |-> "chain", line |-> 147, first |-> Name("user_svc_deploy"), steps |-> <<<<">>", Edge("", [label |-> "reads/writes"])>>, <<">>", Name("cache_redis")>>>>],
      (* 111 *) [op |-> "chain", line |-> 148, first |-> Name("product_svc_deploy"), steps |-> <<<<">>", Edge("", [label |-> "reads/writes"])>>, <<">>", Name("product_db")>>>>],
      (* 112 *) [op |-> "chain", line |-> 149, first |-> Name("order_svc_deploy"), steps |-> <<<<">>", Edge("", [label |-> "reads/writes"])>>, <<">>", Name("order_db")>>>>],
      (* 113 *) [op |-> "chain", line |-> 151, first |-> Name("order_svc_deploy"), steps |-> <<<<">>", Edge("", [label |-> "K8s DNS", style |-> "dashed"])>>, <<">>", Name("user_svc_service")>>>>],
      (* 114 *) [op |-> "chain", line |-> 152, first |-> Name("order_svc_deploy"), steps |-> <<<<">>", Edge("", [label |-> "K8s DNS", style |-> "dashed"])>>, <<">>", Name("product_svc_service")>>>>],
      (* 115 *) [op |-> "for", line |-> 154, var |-> "svc_deploy", iter |-> List(<<"user_svc_deploy", "product_svc_deploy", "order_svc_deploy">>), end |-> 121],
      (* 116 *) [op |-> "chain", line |-> 155, first |-> Name("svc_deploy"), steps |-> <<<<">>", Edge("", [label |-> "AMQP", style |-> "dashed"])>>, <<">>", Name("rabbitmq_service")>>>>],
      (* 117 *) [op |-> "chain", line |-> 156, first |-> Name("svc_deploy"), steps |-> <<<<">>", Edge("", [color |-> "darkgreen", style |-> "dashed", label |-> "metrics"])>>, <<">>", Name("prometheus")>>>>],
      (* 118 *) [op |-> "chain", line |-> 157, first |-> Name("svc_deploy"), steps |-> <<<<">>", Edge("", [color |-> "blue", style |-> "dashed", label |-> "traces"])>>, <<">>", Name("jaeger_collector")>>>>],
      (* 119 *) [op |-> "chain", line |-> 158, first |-> Name("svc_deploy"), steps |-> <<<<">>", Edge("", [color |-> "orange", style |-> "dotted", label |-> "uses"])>>, <<">>", Name("config_maps")>>>>],
      (* 120 *) [op |-> "chain", line |-> 159, first |-> Name("svc_deploy"), steps |-> <<<<">>", Edge("", [color |-> "red", style |-> "dotted", label |-> "uses"])>>, <<">>", Name("secrets")>>>>],
      (* 121 *) [op |-> "endfor", line |-> 159, start |-> 115],
      (* 122 *) [op |-> "exit", line |-> 159],
      (* 123 *) [op |-> "exit", line |-> 159],
      (* 124 *) [op |-> "exit", line |-> 159],
      (* 125 *) [op |-> "exit", line |-> 159],
      (* 126 *) [op |-> "chain", line |-> 162, first |-> Name("github_actions"), steps |-> <<<<">>", Edge("", [label |-> "docker push"])>>, <<">>", Name("ecr")>>>>],
      (* 127 *) [op |-> "chain", line |-> 163, first |-> Name("github_actions"), steps |-> <<<<">>", Edge("", [label |-> "kubectl apply/helm upgrade"])>>, <<">>", Name("eks_control_plane")>>>>],
      (* 128 *) [op |-> "for", line |-> 165, var |-> "node_instance", iter |-> Name("nodes"), end |-> 130],
      (* 129 *) [op |-> "chain", line |-> 166, first |-> Name("ecr"), steps |-> <<<<">>", Edge("", [label |-> "docker pull"])>>, <<">>", Name("node_instance")>>>>],
      (* 130 *) [op |-> "endfor", line |-> 166, start |-> 128],
      (* 131 *) [op |-> "export", line |-> 166],
      (* 132 *) [op |-> "name", line |-> 168, var |-> "diag"]
    >> ]

\* src/architecture/diagrams/deployment/cicd_pipeline_diagram.py
cicd_pipeline_diagram ==
  [ file |-> "src/architecture/diagrams/deployment/cicd_pipeline_diagram.py",
    name |-> "CI/CD Pipeline - E-commerce Platform",
    filename |-> "cicd_pipeline_diagram",
    outformat |-> "jpg",
    show |-> FALSE,
    direction |-> "LR",
    graph_attr |-> [fontsize |-> "45", bgcolor |-> "transparent"],
    node_attr |-> <<>>,
    edge_attr |-> <<>>,
    styles |-> <<>>,
    body |-> <<
      (*   1 *) [op |-> "diagram", line |-> 22, var |-> ""],
      (*   2 *) [op |-> "node", line |-> 24, var |-> "developer", cls |-> "User", label |-> "Developer", class |-> "", inst |-> <<>>],
      (*   3 *) [op |-> "with", line |-> 26, label |-> Constant("Source Code Management"), graph_attr |-> <<>>],
      (*   4 *) [op |-> "node", line |-> 27, var |-> "repo", cls |-> "Github", label |-> "GitHub Repository", class |-> "", inst |-> <<>>],
      (*   5 *) [op |-> "node", line |-> 28, var |-> "pr", cls |-> "Github", label |-> "Pull Request", class |-> "", inst |-> <<>>],
      (*   6 *) [op |-> "node", line |-> 29, var |-> "code", cls |-> "Git", label |-> "Feature Branch", class |-> "", inst |-> <<>>],
      (*   7 *) [op |-> "node", line |-> 30, var |-> "main", cls |-> "Git", label |-> "Main Branch", class |-> "", inst |-> <<>>],
      (*   8 *) [op |-> "chain", line |-> 32, first |-> Name("developer"), steps |-> <<<<">>", Name("code")>>>>],
      (*   9 *) [op |-> "chain", line |-> 33, first |-> Name("code"), steps |-> <<<<">>", Name("pr")>>>>],
      (*  10 *) [op |-> "chain", line |-> 34, first |-> Name("pr"), steps |-> <<<<">>", Name("main")>>>>],
      (*  11 *) [op |-> "chain", line |-> 35, first |-> Name("main"), steps |-> <<<<">>", Name("repo")>>>>],
      (*  12 *) [op |-> "exit", line |-> 35],
      (*  13 *) [op |-> "with", line |-> 38, label |-> Constant("CI/CD Pipeline (GitHub Actions)"), graph_attr |-> <<>>],
      (*  14 *) [op |-> "with", line |-> 39, label |-> Constant("Continuous Integration"), graph_attr |-> <<>>],
      (*  15 *) [op |-> "node", line |-> 40, var |-> "ci_workflow", cls |-> "GithubActions", label |-> "CI Workflow", class |-> "", inst |-> <<>>],
      (*  16 *) [op |-> "with", line |-> 42, label |-> Constant("Build & Test"), graph_attr |-> <<>>],
      (*  17 *) [op |-> "node", line |-> 43, var |-> "unit_tests", cls |-> "GithubActions", label |-> "Unit Tests", class |-> "", inst |-> <<>>],
      (*  18 *) [op |-> "node", line |-> 44, var |-> "integration_tests", cls |-> "GithubActions", label |-> "Integration Tests", class |-> "", inst |-> <<>>],
      (*  19 *) [op |-> "node", line |-> 45, var |-> "static_analysis", cls |-> "GithubActions", label |-> "Static Analysis", class |-> "", inst |-> <<>>],
      (*  20 *) [op |-> "node", line |-> 46, var |-> "linter", cls |-> "GithubActions", label |-> "Linter", class |-> "", inst |-> <<>>],
      (*  21 *) [op |-> "node", line |-> 47, var |-> "build", cls |-> "Docker", label |-> "Build Container", class |-> "", inst |-> <<>>],
      (*  22 *) [op |-> "exit", line |-> 47],
      (*  23 *) [op |-> "with", line |-> 49, label |-> Constant("Security Checks"), graph_attr |-> <<>>],
      (*  24 *) [op |-> "node", line |-> 50, var |-> "sast", cls |-> "GithubActions", label |-> "SAST Scan", class |-> "", inst |-> <<>>],
      (*  25 *) [op |-> "node", line |-> 51, var |-> "dependency_check", cls |-> "GithubActions", label |-> "Dependency Scan", class |-> "", inst |-> <<>>],
      (*  26 *) [op |-> "node", line |-> 52, var |-> "secrets_scan", cls |-> "GithubActions", label |-> "Secrets Scan", class |-> "", inst |-> <<>>],
      (*  27 *) [op |-> "exit", line |-> 52],
      (*  28 *) [op |-> "chain", line |-> 55, first |-> Name("ci_workflow"), steps |-> <<<<">>", Name("unit_tests")>>>>],
      (*  29 *) [op |-> "chain", line |-> 56, first |-> Name("ci_workflow"), steps |-> <<<<">>", Name("integration_tests")>>>>],
      (*  30 *) [op |-> "chain", line |-> 57, first |-> Name("ci_workflow"), steps |-> <<<<">>", Name("static_analysis")>>>>],
      (*  31 *) [op |-> "chain", line |-> 58, first |-> Name("ci_workflow"), steps |-> <<<<">>", Name("linter")>>>>],
      (*  32 *) [op |-> "chain", line |-> 59, first |-> Name("ci_workflow"), steps |-> <<<<">>", Name("build")>>>>],
      (*  33 *) [op |-> "chain", line |-> 60, first |-> Name("ci_workflow"), steps |-> <<<<">>", Name("dependency_check")>>>>],
      (*  34 *) [op |-> "chain", line |-> 61, first |-> Name("ci_workflow"), steps |-> <<<<">>", Name("sast")>>>>],
      (*  35 *) [op |-> "chain", line |-> 62, first |-> Name("ci_workflow"), steps |-> <<<<">>", Name("secrets_scan")>>>>],
      (*  36 *) [op |-> "exit", line |-> 62],
      (*  37 *) [op |-> "with", line |-> 64, label |-> Constant("Continuous Delivery"), graph_attr |-> <<>>],
      (*  38 *) [op |-> "node", line |-> 65, var |-> "cd_workflow", cls |-> "GithubActions", label |-> "CD Workflow", class |-> "", inst |-> <<>>],
      (*  39 *) [op |-> "with", line |-> 67, label |-> Constant("Artifact Creation & Storage"), graph_attr |-> <<>>],
      (*  40 *) [op |-> "node", line |-> 68, var |-> "ecr", cls |-> "ECR", label |-> "Container Registry", class |-> "", inst |-> <<>>],
      (*  41 *) [op |-> "node", line |-> 69, var |-> "version", cls |-> "GithubActions", label |-> "Semantic Versioning", class |-> "", inst |-> <<>>],
      (*  42 *) [op |-> "exit", line |-> 69],
      (*  43 *) [op |-> "with", line |-> 71, label |-> Constant("Deployment"), graph_attr |-> <<>>],
      (*  44 *) [op |-> "node", line |-> 72, var |-> "helm", cls |-> "Helm", label |-> "Helm Charts", class |-> "", inst |-> <<>>],
      (*  45 *) [op |-> "node", line |-> 73, var |-> "deploy_dev", cls |-> "GithubActions", label |-> "Deploy to Dev", class |-> "", inst |-> <<>>],
      (*  46 *) [op |-> "node", line |-> 74, var |-> "deploy_stage", cls |-> "GithubActions", label |-> "Deploy to Staging", class |-> "", inst |-> <<>>],
      (*  47 *) [op |-> "node", line |-> 75, var |-> "deploy_prod", cls |-> "GithubActions", label |-> "Deploy to Production", class |-> "", inst |-> <<>>],
      (*  48 *) [op |-> "exit", line |-> 75],
      (*  49 *) [op |-> "chain", line |-> 78, first |-> Name("cd_workflow"), steps |-> <<<<">>", Name("version")>>>>],
      (*  50 *) [op |-> "chain", line |-> 79, first |-> Name("build"), steps |-> <<<<">>", Name("ecr")>>>>],
      (*  51 *) [op |-> "chain", line |-> 80, first |-> Name("cd_workflow"), steps |-> <<<<">>", Name("helm")>>>>],
      (*  52 *) [op |-> "chain", line |-> 81, first |-> Name("cd_workflow"), steps |-> <<<<">>", Name("deploy_dev")>>>>],
      (*  53 *) [op |-> "chain", line |-> 82, first |-> Name("deploy_dev"), steps |-> <<<<">>", Name("deploy_stage")>>>>],
      (*  54 *) [op |-> "chain", line |-> 83, first |-> Name("deploy_stage"), steps |-> <<<<">>", Name("deploy_prod")>>>>],
      (*  55 *) [op |-> "exit", line |-> 83],
      (*  56 *) [op |-> "exit", line |-> 83],
      (*  57 *) [op |-> "with", line |-> 86, label |-> Constant("Kubernetes Environments"), graph_attr |-> <<>>],
      (*  58 *) [op |-> "node", line |-> 87, var |-> "dev", cls |-> "EKS", label |-> "Development", class |-> "", inst |-> <<>>],
      (*  59 *) [op |-> "node", line |-> 88, var |-> "staging", cls |-> "EKS", label |-> "Staging", class |-> "", inst |-> <<>>],
      (*  60 *) [op |-> "node", line |-> 89, var |-> "prod", cls |-> "EKS", label |-> "Production", class |-> "", inst |-> <<>>],
      (*  61 *) [op |-> "chain", line |-> 91, first |-> Name("deploy_dev"), steps |-> <<<<">>", Name("dev")>>>>],
      (*  62 *) [op |-> "chain", line |-> 92, first |-> Name("deploy_stage"), steps |-> <<<<">>", Name("staging")>>>>],
      (*  63 *) [op |-> "chain", line |-> 93, first |-> Name("deploy_prod"), steps |-> <<<<">>", Name("prod")>>>>],
      (*  64 *) [op |-> "exit", line |-> 93],
      (*  65 *) [op |-> "chain", line |-> 96, first |-> Name("pr"), steps |-> <<<<">>", Edge("", [color |-> "green", style |-> "dashed", label |-> "triggers"])>>, <<">>", Name("ci_workflow")>>>>],
      (*  66 *) [op |-> "chain", line |-> 97, first |-> Name("main"), steps |-> <<<<">>", Edge("", [color |-> "blue", style |-> "dashed", label |-> "triggers"])>>, <<">>", Name("cd_workflow")>>>>],
      (*  67 *) [op |-> "node", line |-> 100, var |-> "approver", cls |-> "Client", label |-> "Release Manager", class |-> "", inst |-> <<>>],
      (*  68 *) [op |-> "chain", line |-> 101, first |-> Name("approver"), steps |-> <<<<">>", Edge("", [color |-> "red", label |-> "approves"])>>, <<">>", Name("deploy_prod")>>>>],
      (*  69 *) [op |-> "export", line |-> 101]
    >> ]

\* src/architecture/diagrams/deployment/disaster_recovery_deployment_diagram.py
disaster_recovery_deployment_diagram ==
  [ file |-> "src/architecture/diagrams/deployment/disaster_recovery_deployment_diagram.py",
    name |-> "Disaster Recovery Deployment - E-commerce Platform",
    filename |-> "disaster_recovery_deployment_diagram",
    outformat |-> "jpg",
    show |-> FALSE,
    direction |-> "TB",
    graph_attr |-> [fontsize |-> "45", bgcolor |-> "transparent"],
    node_attr |-> <<>>,
    edge_attr |-> <<>>,
    styles |-> <<>>,
    body |-> <<
      (*   1 *) [op |-> "diagram", line |-> 21, var |-> ""],
      (*   2 *) [op |-> "node", line |-> 25, var |-> "users", cls |-> "Users", label |-> "Global Users", class |-> "", inst |-> <<>>],
      (*   3 *) [op |-> "node", line |-> 26, var |-> "internet", cls |-> "Internet", label |-> "Internet", class |-> "", inst |-> <<>>],
      (*   4 *) [op |-> "with", line |-> 29, label |-> Constant("Global AWS Resources"), graph_attr |-> <<>>],
      (*   5 *) [op |-> "node", line |-> 30, var |-> "dns", cls |-> "Route53", label |-> "Route53 with Health Checks", class |-> "", inst |-> <<>>],
      (*   6 *) [op |-> "node", line |-> 31, var |-> "cdn", cls |-> "CloudFront", label |-> "CloudFront CDN", class |-> "", inst |-> <<>>],
      (*   7 *) [op |-> "node", line |-> 32, var |-> "static_content", cls |-> "S3", label |-> "S3 - Static Content", class |-> "", inst |-> <<>>],
      (*   8 *) [op |-> "node", line |-> 33, var |-> "waf", cls |-> "WAF", label |-> "WAF", class |-> "", inst |-> <<>>],
      (*   9 *) [op |-> "exit", line |-> 33],
      (*  10 *) [op |-> "with", line |-> 36, label |-> Constant("Primary Region (us-east-1)"), graph_attr |-> <<>>],
      (*  11 *) [op |-> "with", line |-> 37, label |-> Constant("Primary Infrastructure"), graph_attr |-> <<>>],
      (*  12 *) [op |-> "node", line |-> 39, var |-> "primary_vpc", cls |-> "VPC", label |-> "Primary VPC", class |-> "", inst |-> <<>>],
      (*  13 *) [op |-> "node", line |-> 40, var |-> "primary_alb", cls |-> "ELB", label |-> "Primary ALB", class |-> "", inst |-> <<>>],
      (*  14 *) [op |-> "with", line |-> 43, label |-> Constant("Primary EKS Cluster"), graph_attr |-> <<>>],
      (*  15 *) [op |-> "node", line |-> 44, var |-> "primary_eks", cls |-> "EKS", label |-> "Primary EKS", class |-> "", inst |-> <<>>],
      (*  16 *) [op |-> "with", line |-> 46, label |-> Constant("Primary Microservices"), graph_attr |-> <<>>],
      (*  17 *) [op |-> "nodes", line |-> 47, var |-> "primary_services", items |-> <<[cls |-> "Deployment", label |-> "User Service (Active)", class |-> "", inst |-> <<>>], [cls |-> "Deployment", label |-> "Order Service (Active)", class |-> "", inst |-> <<>>], [cls |-> "Deployment", label |-> "Product Service (Active)", class |-> "", inst |-> <<>>], [cls |-> "Deployment", label |-> "Payment Service (Active)", class |-> "", inst |-> <<>>]>>],
      (*  18 *) [op |-> "node", line |-> 54, var |-> "primary_service_mesh", cls |-> "Service", label |-> "Service Mesh", class |-> "", inst |-> <<>>],
      (*  19 *) [op |-> "for", line |-> 56, var |-> "svc", iter |-> Name("primary_services"), end |-> 21],
      (*  20 *) [op |-> "chain", line |-> 57, first |-> Name("svc"), steps |-> <<<<">>", Name("primary_service_mesh")>>>>],
      (*  21 *) [op |-> "endfor", line |-> 57, start |-> 19],
      (*  22 *) [op |-> "exit", line |-> 57],
      (*  23 *) [op |-> "exit", line |-> 57],
      (*  24 *) [op |-> "with", line |-> 60, label |-> Constant("Primary Data Storage"), graph_attr |-> <<>>],
      (*  25 *) [op |-> "node", line |-> 61, var |-> "primary_db", cls |-> "Aurora", label |-> "Aurora Primary Cluster", class |-> "", inst |-> <<>>],
      (*  26 *) [op |-> "node", line |-> 62, var |-> "primary_db_replica", cls |-> "Aurora", label |-> "Aurora Read Replica", class |-> "", inst |-> <<>>],
      (*  27 *) [op |-> "node", line |-> 63, var |-> "primary_cache", cls |-> "ElastiCache", label |-> "ElastiCache (Redis Cluster)", class |-> "", inst |-> <<>>],
      (*  28 *) [op |-> "node", line |-> 64, var |-> "primary_rabbit", cls |-> "MQ", label |-> "RabbitMQ - Primary", class |-> "", inst |-> <<>>],
      (*  29 *) [op |-> "chain", line |-> 66, first |-> Name("primary_db"), steps |-> <<<<">>", Edge("", [label |-> "sync replication"])>>, <<">>", Name("primary_db_replica")>>>>],
      (*  30 *) [op |-> "exit", line |-> 66],
      (*  31 *) [op |-> "node", line |-> 69, var |-> "primary_monitor", cls |-> "Cloudwatch", label |-> "CloudWatch Primary", class |-> "", inst |-> <<>>],
      (*  32 *) [op |-> "node", line |-> 70, var |-> "primary_scaling", cls |-> "AutoScaling", label |-> "AutoScaling", class |-> "", inst |-> <<>>],
      (*  33 *) [op |-> "exit", line |-> 70],
      (*  34 *) [op |-> "exit", line |-> 70],
      (*  35 *) [op |-> "with", line |-> 73, label |-> Constant("DR Region (us-west-2)"), graph_attr |-> <<>>],
      (*  36 *) [op |-> "with", line |-> 74, label |-> Constant("DR Infrastructure"), graph_attr |-> <<>>],
      (*  37 *) [op |-> "node", line |-> 76, var |-> "dr_vpc", cls |-> "VPC", label |-> "DR VPC", class |-> "", inst |-> <<>>],
      (*  38 *) [op |-> "node", line |-> 77, var |-> "dr_alb", cls |-> "ELB", label |-> "DR ALB (Standby)", class |-> "", inst |-> <<>>],
      (*  39 *) [op |-> "with", line |-> 80, label |-> Constant("DR EKS Cluster"), graph_attr |-> <<>>],
      (*  40 *) [op |-> "node", line |-> 81, var |-> "dr_eks", cls |-> "EKS", label |-> "DR EKS", class |-> "", inst |-> <<>>],
      (*  41 *) [op |-> "with", line |-> 83, label |-> Constant("DR Microservices"), graph_attr |-> <<>>],
      (*  42 *) [op |-> "nodes", line |-> 84, var |-> "dr_services", items |-> <<[cls |-> "Deployment", label |-> "User Service (Standby)", class |-> "", inst |-> <<>>], [cls |-> "Deployment", label |-> "Order Service (Standby)", class |-> "", inst |-> <<>>], [cls |-> "Deployment", label |-> "Product Service (Standby)", class |-> "", inst |-> <<>>], [cls |-> "Deployment", label |-> "Payment Service (Standby)", class |-> "", inst |-> <<>>]>>],
      (*  43 *) [op |-> "node", line |-> 91, var |-> "dr_service_mesh", cls |-> "Service", label |-> "Service Mesh", class |-> "", inst |-> <<>>],
      (*  44 *) [op |-> "for", line |-> 93, var |-> "svc", iter |-> Name("dr_services"), end |-> 46],
      (*  45 *) [op |-> "chain", line |-> 94, first |-> Name("svc"), steps |-> <<<<">>", Name("dr_service_mesh")>>>>],
      (*  46 *) [op |-> "endfor", line |-> 94, start |-> 44],
      (*  47 *) [op |-> "exit", line |-> 94],
      (*  48 *) [op |-> "exit", line |-> 94],
      (*  49 *) [op |-> "with", line |-> 97, label |-> Constant("DR Data Storage"), graph_attr |-> <<>>],
      (*  50 *) [op |-> "node", line |-> 98, var |-> "dr_db", cls |-> "Aurora", label |-> "Aurora DR Cluster", class |-> "", inst |-> <<>>],
      (*  51 *) [op |-> "node", line |-> 99, var |-> "dr_cache", cls |-> "ElastiCache", label |-> "ElastiCache (Redis Cluster)", class |-> "", inst |-> <<>>],
      (*  52 *) [op |-> "node", line |-> 100, var |-> "dr_rabbit", cls |-> "MQ", label |-> "RabbitMQ - DR", class |-> "", inst |-> <<>>],
      (*  53 *) [op |-> "exit", line |-> 100],
      (*  54 *) [op |-> "node", line |-> 103, var |-> "dr_monitor", cls |-> "Cloudwatch", label |-> "CloudWatch DR", class |-> "", inst |-> <<>>],
      (*  55 *) [op |-> "node", line |-> 104, var |-> "dr_scaling", cls |-> "AutoScaling", label |-> "AutoScaling", class |-> "", inst |-> <<>>],
      (*  56 *) [op |-> "exit", line |-> 104],
      (*  57 *) [op |-> "exit", line |-> 104],
      (*  58 *) [op |-> "with", line |-> 107, label |-> Constant("Cross-Region Resources"), graph_attr |-> <<>>],
      (*  59 *) [op |-> "node", line |-> 109, var |-> "s3_backup", cls |-> "S3", label |-> "Cross-Region Backup Bucket", class |-> "", inst |-> <<>>],
      (*  60 *) [op |-> "node", line |-> 110, var |-> "events", cls |-> "SNS", label |-> "SNS for Cross-Region Events", class |-> "", inst |-> <<>>],
      (*  61 *) [op |-> "node", line |-> 113, var |-> "failover", cls |-> "Route53", label |-> "R53 Failover", class |-> "", inst |-> <<>>],
      (*  62 *) [op |-> "edge", line |-> 116, var |-> "db_replication", e |-> Edge("", [label |-> "async replication", style |-> "dashed", color |-> "blue"])],
      (*  63 *) [op |-> "chain", line |-> 117, first |-> Name("primary_db"), steps |-> <<<<">>", Name("db_replication")>>, <<">>", Name("dr_db")>>>>],
      (*  64 *) [op |-> "chain", line |-> 120, first |-> Name("primary_rabbit"), steps |-> <<<<">>", Edge("", [label |-> "mirror queue", style |-> "dashed", color |-> "orange"])>>, <<">>", Name("dr_rabbit")>>>>],
      (*  65 *) [op |-> "chain", line |-> 123, first |-> Name("primary_db"), steps |-> <<<<">>", Edge("", [label |-> "backup", style |-> "dotted"])>>, <<">>", Name("s3_backup")>>>>],
      (*  66 *) [op |-> "chain", line |-> 124, first |-> Name("s3_backup"), steps |-> <<<<">>", Edge("", [label |-> "restore if needed", style |-> "dotted"])>>, <<">>", Name("dr_db")>>>>],
      (*  67 *) [op |-> "exit", line |-> 124],
      (*  68 *) [op |-> "chain", line |-> 127, first |-> Name("users"), steps |-> <<<<">>", Name("internet")>>>>],
      (*  69 *) [op |-> "chain", line |-> 128, first |-> Name("internet"), steps |-> <<<<">>", Name("dns")>>>>],
      (*  70 *) [op |-> "chain", line |-> 130, first |-> Name("dns"), steps |-> <<<<">>", Name("cdn")>>>>],
      (*  71 *) [op |-> "chain", line |-> 131, first |-> Name("cdn"), steps |-> <<<<">>", Name("static_content")>>>>],
      (*  72 *) [op |-> "chain", line |-> 134, first |-> Name("dns"), steps |-> <<<<">>", Edge("", [color |-> "green", label |-> "active"])>>, <<">>", Name("waf")>>, <<">>", Name("primary_alb")>>, <<">>", Name("primary_eks")>>>>],
      (*  73 *) [op |-> "chain", line |-> 135, first |-> Name("dns"), steps |-> <<<<">>", Edge("", [color |-> "red", style |-> "dashed", label |-> "standby"])>>, <<">>", Name("dr_alb")>>>>],
      (*  74 *) [op |-> "chain", line |-> 138, first |-> Name("primary_monitor"), steps |-> <<<<">>", Name("events")>>>>],
      (*  75 *) [op |-> "chain", line |-> 139, first |-> Name("dr_monitor"), steps |-> <<<<">>", Name("events")>>>>],
      (*  76 *) [op |-> "chain", line |-> 140, first |-> Name("events"), steps |-> <<<<">>", Name("failover")>>>>],
      (*  77 *) [op |-> "chain", line |-> 143, first |-> Name("failover"), steps |-> <<<<">>", Edge("", [color |-> "red", style |-> "bold", label |-> "failover trigger"])>>, <<">>", Name("dns")>>>>],
      (*  78 *) [op |-> "chain", line |-> 146, first |-> Name("primary_monitor"), steps |-> <<<<">>", Edge("", [style |-> "dotted", label |-> "health check"])>>, <<">>", Subscript("primary_services", 0)>>>>],
      (*  79 *) [op |-> "chain", line |-> 147, first |-> Name("dr_monitor"), steps |-> <<<<">>", Edge("", [style |-> "dotted", label |-> "health check"])>>, <<">>", Subscript("dr_services", 0)>>>>],
      (*  80 *) [op |-> "export", line |-> 147]
    >> ]

\* src/architecture/diagrams/deployment/multi_environment_deployment_diagram.py
multi_environment_deployment_diagram ==
  [ file |-> "src/architecture/diagrams/deployment/multi_environment_deployment_diagram.py",
    name |-> "Multi-Environment Deployment - E-commerce Platform",
    filename |-> "multi_environment_deployment_diagram",
    outformat |-> "jpg",
    show |-> FALSE,
    direction |-> "TB",
    graph_attr |-> [fontsize |-> "45", bgcolor |-> "transparent"],
    node_attr |-> <<>>,
    edge_attr |-> <<>>,
    styles |-> <<>>,
    body |-> <<
      (*   1 *) [op |-> "diagram", line |-> 24, var |-> ""],
      (*   2 *) [op |-> "node", line |-> 28, var |-> "developers", cls |-> "User", label |-> "Developers", class |-> "", inst |-> <<>>],
      (*   3 *) [op |-> "node", line |-> 29, var |-> "qa_team", cls |-> "User", label |-> "QA Team", class |-> "", inst |-> <<>>],
      (*   4 *) [op |-> "node", line |-> 30, var |-> "business", cls |-> "User", label |-> "Business Users", class |-> "", inst |-> <<>>],
      (*   5 *) [op |-> "node", line |-> 31, var |-> "customers", cls |-> "Client", label |-> "Customers", class |-> "", inst |-> <<>>],
      (*   6 *) [op |-> "with", line |-> 34, label |-> Constant("CI/CD Pipeline"), graph_attr |-> <<>>],
      (*   7 *) [op |-> "node", line |-> 35, var |-> "cicd", cls |-> "GithubActions", label |-> "GitHub Actions", class |-> "", inst |-> <<>>],
      (*   8 *) [op |-> "exit", line |-> 35],
      (*   9 *) [op |-> "with", line |-> 38, label |-> Constant("Development Environment"), graph_attr |-> <<>>],
      (*  10 *) [op |-> "with", line |-> 39, label |-> Constant("AWS Dev Account"), graph_attr |-> <<>>],
      (*  11 *) [op |-> "node", line |-> 40, var |-> "dev_vpc", cls |-> "VPC", label |-> "Dev VPC", class |-> "", inst |-> <<>>],
      (*  12 *) [op |-> "with", line |-> 42, label |-> Constant("Dev EKS Cluster (Small)"), graph_attr |-> <<>>],
      (*  13 *) [op |-> "node", line |-> 43, var |-> "dev_eks", cls |-> "EKS", label |-> "Dev EKS", class |-> "", inst |-> <<>>],
      (*  14 *) [op |-> "with", line |-> 45, label |-> Constant("Dev Namespace: Core"), graph_attr |-> <<>>],
      (*  15 *) [op |-> "node", line |-> 47, var |-> "dev_user_svc", cls |-> "Deployment", label |-> "User Service (1 replica)", class |-> "", inst |-> <<>>],
      (*  16 *) [op |-> "node", line |-> 48, var |-> "dev_order_svc", cls |-> "Deployment", label |-> "Order Service (1 replica)", class |-> "", inst |-> <<>>],
      (*  17 *) [op |-> "node", line |-> 49, var |-> "dev_product_svc", cls |-> "Deployment", label |-> "Product Service (1 replica)", class |-> "", inst |-> <<>>],
      (*  18 *) [op |-> "exit", line |-> 49],
      (*  19 *) [op |-> "with", line |-> 51, label |-> Constant("Dev Namespace: Infrastructure"), graph_attr |-> <<>>],
      (*  20 *) [op |-> "node", line |-> 52, var |-> "dev_rabbitmq", cls |-> "StatefulSet", label |-> "RabbitMQ (1 node)", class |-> "", inst |-> <<>>],
      (*  21 *) [op |-> "node", line |-> 53, var |-> "dev_monitoring", cls |-> "Prometheus", label |-> "Prometheus (minimal)", class |-> "", inst |-> <<>>],
      (*  22 *) [op |-> "exit", line |-> 53],
      (*  23 *) [op |-> "exit", line |-> 53],
      (*  24 *) [op |-> "node", line |-> 56, var |-> "dev_dbs", cls |-> "RDS", label |-> "Shared Dev DB (Small)", class |-> "", inst |-> <<>>],
      (*  25 *) [op |-> "node", line |-> 57, var |-> "dev_cache", cls |-> "ElastiCache", label |-> "Dev Cache (t3.small)", class |-> "", inst |-> <<>>],
      (*  26 *) [op |-> "node", line |-> 60, var |-> "dev_elb", cls |-> "ELB", label |-> "Dev Internal ALB", class |-> "", inst |-> <<>>],
      (*  27 *) [op |-> "exit", line |-> 60],
      (*  28 *) [op |-> "exit", line |-> 60],
      (*  29 *) [op |-> "with", line |-> 63, label |-> Constant("Staging Environment"), graph_attr |-> <<>>],
      (*  30 *) [op |-> "with", line |-> 64, label |-> Constant("AWS Staging Account"), graph_attr |-> <<>>],
      (*  31 *) [op |-> "node", line |-> 65, var |-> "stage_vpc", cls |-> "VPC", label |-> "Staging VPC", class |-> "", inst |-> <<>>],
      (*  32 *) [op |-> "with", line |-> 67, label |-> Constant("Staging EKS Cluster (Medium)"), graph_attr |-> <<>>],
      (*  33 *) [op |-> "node", line |-> 68, var |-> "stage_eks", cls |-> "EKS", label |-> "Staging EKS", class |-> "", inst |-> <<>>],
      (*  34 *) [op |-> "with", line |-> 70, label |-> Constant("Staging Namespace: Core"), graph_attr |-> <<>>],
      (*  35 *) [op |-> "node", line |-> 72, var |-> "stage_user_svc", cls |-> "Deployment", label |-> "User Service (2 replicas)", class |-> "", inst |-> <<>>],
      (*  36 *) [op |-> "node", line |-> 73, var |-> "stage_order_svc", cls |-> "Deployment", label |-> "Order Service (2 replicas)", class |-> "", inst |-> <<>>],
      (*  37 *) [op |-> "node", line |-> 74, var |-> "stage_product_svc", cls |-> "Deployment", label |-> "Product Service (2 replicas)", class |-> "", inst |-> <<>>],
      (*  38 *) [op |-> "exit", line |-> 74],
      (*  39 *) [op |-> "with", line |-> 76, label |-> Constant("Staging Namespace: Infrastructure"), graph_attr |-> <<>>],
      (*  40 *) [op |-> "node", line |-> 77, var |-> "stage_rabbitmq", cls |-> "StatefulSet", label |-> "RabbitMQ (3 nodes)", class |-> "", inst |-> <<>>],
      (*  41 *) [op |-> "node", line |-> 78, var |-> "stage_monitoring", cls |-> "Prometheus", label |-> "Full Monitoring Stack", class |-> "", inst |-> <<>>],
      (*  42 *) [op |-> "node", line |-> 79, var |-> "stage_tracing", cls |-> "Jaeger", label |-> "Jaeger Tracing", class |-> "", inst |-> <<>>],
      (*  43 *) [op |-> "exit", line |-> 79],
      (*  44 *) [op |-> "exit", line |-> 79],
      (*  45 *) [op |-> "node", line |-> 82, var |-> "stage_dbs", cls |-> "RDS", label |-> "Staging DB (Medium)", class |-> "", inst |-> <<>>],
      (*  46 *) [op |-> "node", line |-> 83, var |-> "stage_cache", cls |-> "ElastiCache", label |-> "Staging Cache (m5.large)", class |-> "", inst |-> <<>>],
      (*  47 *) [op |-> "node", line |-> 86, var |-> "stage_elb", cls |-> "ELB", label |-> "Staging ALB", class |-> "", inst |-> <<>>],
      (*  48 *) [op |-> "exit", line |-> 86],
      (*  49 *) [op |-> "exit", line |-> 86],
      (*  50 *) [op |-> "with", line |-> 89, label |-> Constant("Production Environment"), graph_attr |-> <<>>],
      (*  51 *) [op |-> "with", line |-> 90, label |-> Constant("AWS Production Account"), graph_attr |-> <<>>],
      (*  52 *) [op |-> "node", line |-> 91, var |-> "prod_vpc", cls |-> "VPC", label |-> "Production VPC", class |-> "", inst |-> <<>>],
      (*  53 *) [op |-> "with", line |-> 93, label |-> Constant("Production EKS Cluster (Large)"), graph_attr |-> <<>>],
      (*  54 *) [op |-> "node", line |-> 94, var |-> "prod_eks", cls |-> "EKS", label |-> "Production EKS", class |-> "", inst |-> <<>>],
      (*  55 *) [op |-> "with", line |-> 96, label |-> Constant("Production Namespace: Core"), graph_attr |-> <<>>],
      (*  56 *) [op |-> "node", line |-> 98, var |-> "prod_user_svc", cls |-> "Deployment", label |-> "User Service (3+ replicas, HPA)", class |-> "", inst |-> <<>>],
      (*  57 *) [op |-> "node", line |-> 99, var |-> "prod_order_svc", cls |-> "Deployment", label |-> "Order Service (3+ replicas, HPA)", class |-> "", inst |-> <<>>],
      (*  58 *) [op |-> "node", line |-> 100, var |-> "prod_product_svc", cls |-> "Deployment", label |-> "Product Service (3+ replicas, HPA)", class |-> "", inst |-> <<>>],
      (*  59 *) [op |-> "exit", line |-> 100],
      (*  60 *) [op |-> "with", line |-> 102, label |-> Constant("Production Namespace: Infrastructure"), graph_attr |-> <<>>],
      (*  61 *) [op |-> "node", line |-> 103, var |-> "prod_rabbitmq", cls |-> "StatefulSet", label |-> "RabbitMQ (3+ nodes)", class |-> "", inst |-> <<>>],
      (*  62 *) [op |-> "node", line |-> 104, var |-> "prod_monitoring", cls |-> "Prometheus", label |-> "Full Monitoring + Alerting", class |-> "", inst |-> <<>>],
      (*  63 *) [op |-> "node", line |-> 105, var |-> "prod_tracing", cls |-> "Jaeger", label |-> "Distributed Tracing", class |-> "", inst |-> <<>>],
      (*  64 *) [op |-> "node", line |-> 106, var |-> "prod_logging", cls |-> "FluentBit", label |-> "Centralized Logging", class |-> "", inst |-> <<>>],
      (*  65 *) [op |-> "exit", line |-> 106],
      (*  66 *) [op |-> "exit", line |-> 106],
      (*  67 *) [op |-> "node", line |-> 109, var |-> "prod_dbs", cls |-> "RDS", label |-> "Production DB Cluster (m5.xlarge)", class |-> "", inst |-> <<>>],
      (*  68 *) [op |-> "node", line |-> 110, var |-> "prod_cache", cls |-> "ElastiCache", label |-> "Production Cache Cluster", class |-> "", inst |-> <<>>],
      (*  69 *) [op |-> "node", line |-> 113, var |-> "prod_elb", cls |-> "ELB", label |-> "Production ALB with WAF", class |-> "", inst |-> <<>>],
      (*  70 *) [op |-> "node", line |-> 116, var |-> "prod_backup", cls |-> "S3", label |-> "Backup Bucket", class |-> "", inst |-> <<>>],
      (*  71 *) [op |-> "node", line |-> 117, var |-> "prod_secrets", cls |-> "SecretsManager", label |-> "Enhanced Secrets", class |-> "", inst |-> <<>>],
      (*  72 *) [op |-> "exit", line |-> 117],
      (*  73 *) [op |-> "exit", line |-> 117],
      (*  74 *) [op |-> "chain", line |-> 120, first |-> Name("developers"), steps |-> <<<<">>", Name("dev_elb")>>>>],
      (*  75 *) [op |-> "chain", line |-> 121, first |-> Name("developers"), steps |-> <<<<">>", Name("stage_elb")>>>>],
      (*  76 *) [op |-> "chain", line |-> 123, first |-> Name("qa_team"), steps |-> <<<<">>", Name("stage_elb")>>>>],
      (*  77 *) [op |-> "chain", line |-> 124, first |-> Name("business"), steps |-> <<<<">>", Name("stage_elb")>>>>],
      (*  78 *) [op |-> "chain", line |-> 126, first |-> Name("customers"), steps |-> <<<<">>", Name("prod_elb")>>>>],
      (*  79 *) [op |-> "chain", line |-> 129, first |-> Name("cicd"), steps |-> <<<<">>", Edge("", [color |-> "blue", label |-> "continuous deployment"])>>, <<">>", Name("dev_eks")>>>>],
      (*  80 *) [op |-> "chain", line |-> 130, first |-> Name("cicd"), steps |-> <<<<">>", Edge("", [color |-> "green", label |-> "on approved PR"])>>, <<">>", Name("stage_eks")>>>>],
      (*  81 *) [op |-> "chain", line |-> 131, first |-> Name("cicd"), steps |-> <<<<">>", Edge("", [color |-> "red", label |-> "manual release"])>>, <<">>", Name("prod_eks")>>>>],
      (*  82 *) [op |-> "chain", line |-> 134, first |-> Name("dev_user_svc"), steps |-> <<<<">>", Name("dev_dbs")>>>>],
      (*  83 *) [op |-> "chain", line |-> 135, first |-> Name("dev_user_svc"), steps |-> <<<<">>", Name("dev_cache")>>>>],
      (*  84 *) [op |-> "chain", line |-> 136, first |-> Name("dev_order_svc"), steps |-> <<<<">>", Name("dev_rabbitmq")>>>>],
      (*  85 *) [op |-> "chain", line |-> 138, first |-> Name("stage_user_svc"), steps |-> <<<<">>", Name("stage_dbs")>>>>],
      (*  86 *) [op |-> "chain", line |-> 139, first |-> Name("stage_user_svc"), steps |-> <<<<">>", Name("stage_cache")>>>>],
      (*  87 *) [op |-> "chain", line |-> 140, first |-> Name("stage_order_svc"), steps |-> <<<<">>", Name("stage_rabbitmq")>>>>],
      (*  88 *) [op |-> "chain", line |-> 142, first |-> Name("prod_user_svc"), steps |-> <<<<">>", Name("prod_dbs")>>>>],
      (*  89 *) [op |-> "chain", line |-> 143, first |-> Name("prod_user_svc"), steps |-> <<<<">>", Name("prod_cache")>>>>],
      (*  90 *) [op |-> "chain", line |-> 144, first |-> Name("prod_order_svc"), steps |-> <<<<">>", Name("prod_rabbitmq")>>>>],
      (*  91 *) [op |-> "chain", line |-> 145, first |-> Name("prod_dbs"), steps |-> <<<<">>", Name("prod_backup")>>>>],
      (*  92 *) [op |-> "chain", line |-> 148, first |-> Name("dev_vpc"), steps |-> <<<<"-", Edge("", [style |-> "dotted", color |-> "red", label |-> "isolated"])>>, <<"-", Name("stage_vpc")>>>>],
      (*  93 *) [op |-> "chain", line |-> 149, first |-> Name("stage_vpc"), steps |-> <<<<"-", Edge("", [style |-> "dotted", color |-> "red", label |-> "isolated"])>>, <<"-", Name("prod_vpc")>>>>],
      (*  94 *) [op |-> "export", line |-> 149]
    >> ]

\* src/architecture/diagrams/deployment/observability_stack_diagram.py
observability_stack_diagram ==
  [ file |-> "src/architecture/diagrams/deployment/observability_stack_diagram.py",
    name |-> "Observability Stack - E-commerce Platform",
    filename |-> "observability_stack_diagram",
    outformat |-> "jpg",
    show |-> FALSE,
    direction |-> "TB",
    graph_attr |-> [fontsize |-> "45", bgcolor |-> "transparent"],
    node_attr |-> <<>>,
    edge_attr |-> <<>>,
    styles |-> <<>>,
    body |-> <<
      (*   1 *) [op |-> "diagram", line |-> 20, var |-> ""],
      (*   2 *) [op |-> "node", line |-> 22, var |-> "sre", cls |-> "User", label |-> "SRE Team", class |-> "", inst |-> <<>>],
      (*   3 *) [op |-> "node", line |-> 23, var |-> "developer", cls |-> "User", label |-> "Developers", class |-> "", inst |-> <<>>],
      (*   4 *) [op |-> "node", line |-> 24, var |-> "business", cls |-> "Client", label |-> "Business Analysts", class |-> "", inst |-> <<>>],
      (*   5 *) [op |-> "with", line |-> 26, label |-> Constant("Microservice Instrumentation"), graph_attr |-> <<>>],
      (*   6 *) [op |-> "node", line |-> 28, var |-> "user_svc", cls |-> "Nodejs", label |-> "User Service", class |-> "", inst |-> <<>>],
      (*   7 *) [op |-> "node", line |-> 29, var |-> "order_svc", cls |-> "Nodejs", label |-> "Order Service", class |-> "", inst |-> <<>>],
      (*   8 *) [op |-> "node", line |-> 30, var |-> "product_svc", cls |-> "Nodejs", label |-> "Product Service", class |-> "", inst |-> <<>>],
      (*   9 *) [op |-> "node", line |-> 31, var |-> "payment_svc", cls |-> "Nodejs", label |-> "Payment Service", class |-> "", inst |-> <<>>],
      (*  10 *) [op |-> "exit", line |-> 31],
      (*  11 *) [op |-> "with", line |-> 33, label |-> Constant("Monitoring & Alerting (PGA Stack)"), graph_attr |-> <<>>],
      (*  12 *) [op |-> "with", line |-> 35, label |-> Constant("Metrics Collection & Storage"), graph_attr |-> <<>>],
      (*  13 *) [op |-> "node", line |-> 36, var |-> "prometheus", cls |-> "Prometheus", label |-> "Prometheus", class |-> "", inst |-> <<>>],
      (*  14 *) [op |-> "node", line |-> 37, var |-> "prom_am", cls |-> "Prometheus", label |-> "Alertmanager", class |-> "", inst |-> <<>>],
      (*  15 *) [op |-> "node", line |-> 38, var |-> "prom_stateful", cls |-> "StatefulSet", label |-> "Prometheus StatefulSet", class |-> "", inst |-> <<>>],
      (*  16 *) [op |-> "node", line |-> 39, var |-> "prom_service", cls |-> "Service", label |-> "Prometheus Service", class |-> "", inst |-> <<>>],
      (*  17 *) [op |-> "chain", line |-> 42, first |-> Name("prometheus"), steps |-> <<<<"-", Name("prom_stateful")>>>>],
      (*  18 *) [op |-> "chain", line |-> 43, first |-> Name("prometheus"), steps |-> <<<<"-", Name("prom_service")>>>>],
      (*  19 *) [op |-> "chain", line |-> 44, first |-> Name("prometheus"), steps |-> <<<<"-", Name("prom_am")>>>>],
      (*  20 *) [op |-> "exit", line |-> 44],
      (*  21 *) [op |-> "with", line |-> 46, label |-> Constant("Visualization"), graph_attr |-> <<>>],
      (*  22 *) [op |-> "node", line |-> 47, var |-> "grafana", cls |-> "Grafana", label |-> "Grafana", class |-> "", inst |-> <<>>],
      (*  23 *) [op |-> "node", line |-> 48, var |-> "grafana_deploy", cls |-> "Deployment", label |-> "Grafana Deployment", class |-> "", inst |-> <<>>],
      (*  24 *) [op |-> "node", line |-> 49, var |-> "grafana_svc", cls |-> "Service", label |-> "Grafana Service", class |-> "", inst |-> <<>>],
      (*  25 *) [op |-> "chain", line |-> 52, first |-> Name("grafana"), steps |-> <<<<"-", Name("grafana_deploy")>>>>],
      (*  26 *) [op |-> "chain", line |-> 53, first |-> Name("grafana"), steps |-> <<<<"-", Name("grafana_svc")>>>>],
      (*  27 *) [op |-> "exit", line |-> 53],
      (*  28 *) [op |-> "node", line |-> 56, var |-> "slo_dash", cls |-> "Grafana", label |-> "SLO Dashboards", class |-> "", inst |-> <<>>],
      (*  29 *) [op |-> "node", line |-> 57, var |-> "service_dash", cls |-> "Grafana", label |-> "Service Dashboards", class |-> "", inst |-> <<>>],
      (*  30 *) [op |-> "chain", line |-> 60, first |-> Name("grafana"), steps |-> <<<<">>", Name("slo_dash")>>>>],
      (*  31 *) [op |-> "chain", line |-> 61, first |-> Name("grafana"), steps |-> <<<<">>", Name("service_dash")>>>>],
      (*  32 *) [op |-> "exit", line |-> 61],
      (*  33 *) [op |-> "with", line |-> 63, label |-> Constant("Distributed Tracing (OpenTelemetry)"), graph_attr |-> <<>>],
      (*  34 *) [op |-> "node", line |-> 65, var |-> "otel_collector", cls |-> "Deployment", label |-> "OpenTelemetry Collector", class |-> "", inst |-> <<>>],
      (*  35 *) [op |-> "with", line |-> 67, label |-> Constant("Trace Storage & Visualization"), graph_attr |-> <<>>],
      (*  36 *) [op |-> "node", line |-> 68, var |-> "jaeger_collector", cls |-> "Jaeger", label |-> "Jaeger Collector", class |-> "", inst |-> <<>>],
      (*  37 *) [op |-> "node", line |-> 69, var |-> "jaeger_query", cls |-> "Jaeger", label |-> "Jaeger Query", class |-> "", inst |-> <<>>],
      (*  38 *) [op |-> "node", line |-> 70, var |-> "jaeger_svc", cls |-> "Service", label |-> "Jaeger Service", class |-> "", inst |-> <<>>],
      (*  39 *) [op |-> "chain", line |-> 73, first |-> Name("jaeger_collector"), steps |-> <<<<"-", Name("jaeger_query")>>>>],
      (*  40 *) [op |-> "chain", line |-> 74, first |-> Name("jaeger_query"), steps |-> <<<<"-", Name("jaeger_svc")>>>>],
      (*  41 *) [op |-> "exit", line |-> 74],
      (*  42 *) [op |-> "exit", line |-> 74],
      (*  43 *) [op |-> "with", line |-> 76, label |-> Constant("Logging Infrastructure"), graph_attr |-> <<>>],
      (*  44 *) [op |-> "node", line |-> 78, var |-> "fluentbit", cls |-> "FluentBit", label |-> "FluentBit DaemonSet", class |-> "", inst |-> <<>>],
      (*  45 *) [op |-> "node", line |-> 79, var |-> "loki", cls |-> "Loki", label |-> "Loki", class |-> "", inst |-> <<>>],
      (*  46 *) [op |-> "node", line |-> 80, var |-> "loki_svc", cls |-> "Service", label |-> "Loki Service", class |-> "", inst |-> <<>>],
      (*  47 *) [op |-> "node", line |-> 83, var |-> "logs_bucket", cls |-> "S3", label |-> "Log Archives", class |-> "", inst |-> <<>>],
      (*  48 *) [op |-> "chain", line |-> 86, first |-> Name("fluentbit"), steps |-> <<<<">>", Name("loki")>>>>],
      (*  49 *) [op |-> "chain", line |-> 87, first |-> Name("loki"), steps |-> <<<<"-", Name("loki_svc")>>>>],
      (*  50 *) [op |-> "chain", line |-> 88, first |-> Name("loki"), steps |-> <<<<">>", Name("logs_bucket")>>>>],
      (*  51 *) [op |-> "exit", line |-> 88],
      (*  52 *) [op |-> "chain", line |-> 91, first |-> Name("prometheus"), steps |-> <<<<">>", Edge("", [color |-> "darkgreen", label |-> "scrapes metrics", style |-> "dashed"])>>, <<">>", Name("otel_collector")>>>>],
      (*  53 *) [op |-> "for", line |-> 94, var |-> "service", iter |-> List(<<"user_svc", "order_svc", "product_svc", "payment_svc">>), end |-> 57],
      (*  54 *) [op |-> "chain", line |-> 95, first |-> Name("service"), steps |-> <<<<">>", Edge("", [color |-> "darkgreen", label |-> "metrics"])>>, <<">>", Name("prometheus")>>>>],
      (*  55 *) [op |-> "chain", line |-> 96, first |-> Name("service"), steps |-> <<<<">>", Edge("", [color |-> "darkblue", label |-> "traces"])>>, <<">>", Name("otel_collector")>>>>],
      (*  56 *) [op |-> "chain", line |-> 97, first |-> Name("service"), steps |-> <<<<">>", Edge("", [color |-> "darkorange", label |-> "logs"])>>, <<">>", Name("fluentbit")>>>>],
      (*  57 *) [op |-> "endfor", line |-> 97, start |-> 53],
      (*  58 *) [op |-> "chain", line |-> 100, first |-> Name("otel_collector"), steps |-> <<<<">>", Name("jaeger_collector")>>>>],
      (*  59 *) [op |-> "chain", line |-> 103, first |-> Name("sre"), steps |-> <<<<">>", Edge("", [color |-> "blue"])>>, <<">>", Name("grafana")>>>>],
      (*  60 *) [op |-> "chain", line |-> 104, first |-> Name("sre"), steps |-> <<<<">>", Edge("", [color |-> "red"])>>, <<">>", Name("prom_am")>>>>],
      (*  61 *) [op |-> "chain", line |-> 105, first |-> Name("developer"), steps |-> <<<<">>", Edge("", [color |-> "blue"])>>, <<">>", Name("jaeger_query")>>>>],
      (*  62 *) [op |-> "chain", line |-> 108, first |-> Name("prometheus"), steps |-> <<<<"<<", Edge("", [label |-> "data source", style |-> "dotted"])>>, <<"<<", Name("grafana")>>>>],
      (*  63 *) [op |-> "chain", line |-> 109, first |-> Name("loki"), steps |-> <<<<"<<", Edge("", [label |-> "data source", style |-> "dotted"])>>, <<"<<", Name("grafana")>>>>],
      (*  64 *) [op |-> "chain", line |-> 110, first |-> Name("jaeger_query"), steps |-> <<<<"<<", Edge("", [label |-> "data source", style |-> "dotted"])>>, <<"<<", Name("grafana")>>>>],
      (*  65 *) [op |-> "chain", line |-> 113, first |-> Name("business"), steps |-> <<<<">>", Edge("", [color |-> "green"])>>, <<">>", Name("service_dash")>>>>],
      (*  66 *) [op |-> "export", line |-> 113]
    >> ]
(***************************************************************************)
(* All scripts, by output file name.                                        *)
(***************************************************************************)
Scripts ==
  [ c1_system_context_diagram |-> c1_system_context_diagram,
    c2_container_diagram |-> c2_container_diagram,
    c3_inventory_service_diagram |-> c3_inventory_service_diagram,
    c3_notification_service_diagram |-> c3_notification_service_diagram,
    c3_order_service_diagram |-> c3_order_service_diagram,
    c3_payment_service_diagram |-> c3_payment_service_diagram,
    c3_product_service_diagram |-> c3_product_service_diagram,
    c3_search_service_diagram |-> c3_search_service_diagram,
    c3_user_service_diagram |-> c3_user_service_diagram,
    communication_styles_patterns_diagram |-> communication_styles_patterns_diagram,
    data_flow_diagram |-> data_flow_diagram,
    aws_eks_deployment_diagram |-> aws_eks_deployment_diagram,
    cicd_pipeline_diagram |-> cicd_pipeline_diagram,
    disaster_recovery_deployment_diagram |-> disaster_recovery_deployment_diagram,
    multi_environment_deployment_diagram |-> multi_environment_deployment_diagram,
    observability_stack_diagram |-> observability_stack_diagram ]

ScriptNames == DOMAIN Scripts

(***************************************************************************)
(* The running script and the diagram it assembles.                        *)
(***************************************************************************)
VARIABLES
  script,    \* name of the script being run
  pc,        \* index in Body(script) of the next statement
  status,    \* "running", "exited" (ran to the end) or "crashed" (uncaught exception)
  error,     \* the exception that ended the run, "" if none
  clock,     \* number of statements executed so far
  env,       \* the module namespace: variable name -> value
  withs,     \* open `with` cluster blocks, innermost last
  loops,     \* active for-loops, innermost last
  diagram,   \* 1 while the script's Diagram block is open, 0 otherwise
  opened,    \* number of Diagram objects constructed
  cur,       \* the cluster that is current (0: none, the diagram itself)
  nodes,     \* the nodes of the diagram, in construction order
  clusters,  \* the clusters of the diagram, in construction order
  edges,     \* the edges of the diagram, in declaration order
  exported,  \* the image files written by this run
  printed,   \* number of print statements executed
  attempts,  \* number of times the rendering was started
  cwd,       \* the working directory: file name -> the scripts that wrote it, in order
  environ,   \* what the process was started with: arguments, environment variables
  previous   \* the graphs declared by the earlier runs of the script

control == <<script, pc, status, error, clock>>
python  == <<env, withs, loops>>
graph   == <<nodes, clusters, edges>>
library == <<diagram, opened, cur>>
output  == <<exported, printed, attempts, cwd>>
outside == <<environ, previous>>
vars    == <<control, python, graph, library, output, outside>>

\* the environments a script is started in
Environments ==
  { [argv |-> <<>>, vars |-> <<>>],
    [argv |-> <<"--outformat=png">>, vars |-> [DIAGRAM_OUTPUT_DIR |-> "out"]] }

\* index in script s of the statement of the given kind at a source line
StmtIdx(s, line, kind) ==
  CHOOSE i \in 1..Len(Scripts[s].body) :
    Scripts[s].body[i].line = line /\ Scripts[s].body[i].op = kind

\* script s with the statements at indices i and i + 1 exchanged
Swapped(s, i) ==
  [Scripts[s].body EXCEPT ![i] = Scripts[s].body[i + 1], ![i + 1] = Scripts[s].body[i]]

\* AWS EKS script whose `github_actions >> ... >> ecr` (line 162) names a
\* variable that is never assigned
Body_undefined_name(s) ==
  IF s = "aws_eks_deployment_diagram"
  THEN [Scripts[s].body EXCEPT ![StmtIdx(s, 162, "chain")].steps[2][2] = Name("ecr_repo")]
  ELSE Scripts[s].body

\* AWS EKS script that constructs nodes_group (line 53) before it opens
\* "Kubernetes Worker Nodes" (line 52) and enters it inside
Body_cluster_made_outside(s) ==
  IF s = "aws_eks_deployment_diagram"
  THEN Swapped(s, StmtIdx(s, 52, "with"))
  ELSE Scripts[s].body

\* AWS EKS script whose "Databases" block (line 132) is indented one level
\* deeper, so that the "EKS Cluster" block closes after it
RECURSIVE MoveExitAfter(_, _, _)
MoveExitAfter(body, i, j) ==
  IF i >= j THEN body
  ELSE MoveExitAfter([body EXCEPT ![i] = body[i + 1], ![i + 1] = body[i]], i + 1, j)

Body_databases_indented(s) ==
  IF s = "aws_eks_deployment_diagram"
  THEN MoveExitAfter(Scripts[s].body, StmtIdx(s, 132, "with") - 1,
                     StmtIdx(s, 136, "exit"))
  ELSE Scripts[s].body

\* system context script whose `admin_user >> ...` (line 40) starts at customer
Body_admin_edge_from_customer(s) ==
  IF s = "c1_system_context_diagram"
  THEN [Scripts[s].body EXCEPT ![StmtIdx(s, 40, "chain")].first = Name("customer")]
  ELSE Scripts[s].body

\* script s without its statement at index i
Without(s, i) ==
  SubSeq(Scripts[s].body, 1, i - 1) \o SubSeq(Scripts[s].body, i + 1, Len(Scripts[s].body))

\* container script without the second consumer of PaymentProcessed (line 107)
Body_without_second_payment_consumer(s) ==
  IF s = "c2_container_diagram"
  THEN Without(s, StmtIdx(s, 107, "chain"))
  ELSE Scripts[s].body

\* data-flow script whose add_invisible_edge calls (lines 177-180) are
\* dedented, so that they run after the Diagram block has closed
Body_invisible_edges_after_block(s) ==
  IF s = "data_flow_diagram"
  THEN LET b == Scripts[s].body
           k == StmtIdx(s, 177, "chain")
           e == CHOOSE i \in 1..Len(b) : b[i].op = "export"
       IN  SubSeq(b, 1, k - 1) \o <<b[e]>> \o SubSeq(b, k, e - 1) \o SubSeq(b, e + 1, Len(b))
  ELSE Scripts[s].body

\* communication-styles script whose last connection (line 95) is written
\* without **async_edge_attrs
Body_email_edge_without_class(s) ==
  IF s = "communication_styles_patterns_diagram"
  THEN [Scripts[s].body EXCEPT ![StmtIdx(s, 95, "chain")].steps[1][2].class = ""]
  ELSE Scripts[s].body

\* data-flow script whose first invisible edge (line 177) starts at a real
\* node: add_invisible_edge(cart_process, order_process)
Body_invisible_edge_between_processes(s) ==
  IF s = "data_flow_diagram"
  THEN [Scripts[s].body EXCEPT ![StmtIdx(s, 177, "chain")].first = Name("cart_process")]
  ELSE Scripts[s].body

\* multi-environment script whose second developers edge (line 121) goes to
\* the production load balancer
Body_developers_reach_production(s) ==
  IF s = "multi_environment_deployment_diagram"
  THEN [Scripts[s].body EXCEPT ![StmtIdx(s, 121, "chain")].steps[1][2] = Name("prod_elb")]
  ELSE Scripts[s].body


\* container script without the consumer of StockUpdated (line 108)
Body_without_stock_consumer(s) ==
  IF s = "c2_container_diagram"
  THEN Without(s, StmtIdx(s, 108, "chain"))
  ELSE Scripts[s].body


\* container script whose first internal connection (line 77) starts at
\* customer, a node made before the platform cluster is opened
Body_internal_edge_from_customer(s) ==
  IF s = "c2_container_diagram"
  THEN [Scripts[s].body EXCEPT ![StmtIdx(s, 77, "chain")].first = Name("customer")]
  ELSE Scripts[s].body


\* AWS EKS script whose product_svc_pods (line 92) are both labelled "Pod 1"
Body_product_pods_labelled_alike(s) ==
  IF s = "aws_eks_deployment_diagram"
  THEN [Scripts[s].body EXCEPT ![StmtIdx(s, 92, "nodes")].items[2].label = "Pod 1"]
  ELSE Scripts[s].body


\* data-flow script whose "Store profile" edge (line 130) is given normal_edge
Body_store_profile_as_normal_edge(s) ==
  IF s = "data_flow_diagram"
  THEN [Scripts[s].body EXCEPT ![StmtIdx(s, 130, "chain")].steps[1][2].class = "normal_edge"]
  ELSE Scripts[s].body


\* CI/CD script whose edge into deploy_prod (line 83) starts at cd_workflow
\* instead of deploy_stage
Body_production_deployed_from_workflow(s) ==
  IF s = "cicd_pipeline_diagram"
  THEN [Scripts[s].body EXCEPT ![StmtIdx(s, 83, "chain")].first = Name("cd_workflow")]
  ELSE Scripts[s].body

\* the statements the interpreter runs for script s
Body(s) == Scripts[s].body

\* the module-level style dictionaries of script s
Styles(s) == Scripts[s].styles

\* the diagram-wide defaults passed to Diagram(...)
NodeAttr(s) == Scripts[s].node_attr
EdgeAttr(s) == Scripts[s].edge_attr
GraphAttr(s) == Scripts[s].graph_attr

Stmt == Body(script)[pc]

Running(kind) ==
  /\ status = "running"
  /\ pc <= Len(Body(script))
  /\ Stmt.op = kind

(***************************************************************************)
(* Dictionaries are functions from keys to values; hi wins over lo.        *)
(***************************************************************************)
Merge(hi, lo) ==
  [k \in DOMAIN hi \cup DOMAIN lo |-> IF k \in DOMAIN hi THEN hi[k] ELSE lo[k]]

\* assignment var = val in namespace e
Bind(e, var, val) ==
  [x \in DOMAIN e \cup {var} |-> IF x = var THEN val ELSE e[x]]

Err(name) == [k |-> "error", err |-> name]
NodeVal(n) == [k |-> "node", id |-> n]
ListVal(ns) == [k |-> "list", ids |-> ns]
NoObj == [k |-> "none"]

(***************************************************************************)
(* The keyword arguments of a call f(k=v, ..., **class): the keywords      *)
(* written at the call together with the entries of the spread dictionary. *)
(* Python rejects a call that receives the same keyword twice.             *)
(***************************************************************************)
Kwargs(call, styles) ==
  IF call.class = "" THEN [err |-> "", val |-> call.inst]
  ELSE IF call.class \notin DOMAIN styles THEN [err |-> "NameError", val |-> <<>>]
  ELSE IF DOMAIN call.inst \cap DOMAIN styles[call.class] # {}
       THEN [err |-> "TypeError", val |-> <<>>]
  ELSE [err |-> "", val |-> Merge(call.inst, styles[call.class])]

(***************************************************************************)
(* Evaluation of an operand in namespace e.                                *)
(***************************************************************************)
EdgeObj(kw) ==
  [k |-> "edge", node |-> 0, forward |-> FALSE, reverse |-> FALSE, attrs |-> kw, ref |-> ""]

AllNodes(names, e) ==
  \A i \in 1..Len(names) : names[i] \in DOMAIN e /\ e[names[i]].k = "node"

\* a list display that stands for its first element only
EvalOperand_list_as_first_element(x, e, styles) ==
  CASE x.t = "var" ->
         IF x.name \notin DOMAIN e THEN Err("NameError")
         ELSE IF e[x.name].k = "edge" THEN [e[x.name] EXCEPT !.ref = x.name]
         ELSE e[x.name]
    [] x.t = "idx" ->
         IF x.name \notin DOMAIN e THEN Err("NameError")
         ELSE IF e[x.name].k # "list" THEN Err("TypeError")
         ELSE IF x.i >= Len(e[x.name].ids) THEN Err("IndexError")
         ELSE NodeVal(e[x.name].ids[x.i + 1])
    [] x.t = "list" ->
         IF \E i \in 1..Len(x.names) : x.names[i] \notin DOMAIN e THEN Err("NameError")
         ELSE IF ~AllNodes(x.names, e) THEN Err("ValueError")
         ELSE NodeVal(e[x.names[1]].id)
    [] x.t = "edge" ->
         LET kw == Kwargs(x, styles) IN
         IF kw.err # "" THEN Err(kw.err) ELSE EdgeObj(kw.val)

EvalOperand(x, e, styles) ==
  CASE x.t = "var" ->
         IF x.name \notin DOMAIN e THEN Err("NameError")
         ELSE IF e[x.name].k = "edge" THEN [e[x.name] EXCEPT !.ref = x.name]
         ELSE e[x.name]
    [] x.t = "idx" ->
         IF x.name \notin DOMAIN e THEN Err("NameError")
         ELSE IF e[x.name].k # "list" THEN Err("TypeError")
         ELSE IF x.i >= Len(e[x.name].ids) THEN Err("IndexError")
         ELSE NodeVal(e[x.name].ids[x.i + 1])
    [] x.t = "list" ->
         IF \E i \in 1..Len(x.names) : x.names[i] \notin DOMAIN e THEN Err("NameError")
         ELSE IF ~AllNodes(x.names, e) THEN Err("ValueError")
         ELSE ListVal([i \in 1..Len(x.names) |-> e[x.names[i]].id])
    [] x.t = "edge" ->
         LET kw == Kwargs(x, styles) IN
         IF kw.err # "" THEN Err(kw.err) ELSE EdgeObj(kw.val)

(***************************************************************************)
(* The connection operators.  An edge of the diagram is the pair of its    *)
(* endpoints with the direction and attributes of the Edge object used.    *)
(***************************************************************************)
Dir(e) ==
  IF e.forward /\ e.reverse THEN "both"
  ELSE IF e.forward THEN "forward"
  ELSE IF e.reverse THEN "back"
  ELSE "none"

\* the edge that `a.connect(b, e)` appends to the diagram
Connect(a, b, e) == [src |-> a, dst |-> b, dir |-> Dir(e), attrs |-> e.attrs]

\* the Edge object the operator creates when no Edge is written
FreshEdge(a, opr) ==
  [EdgeObj(<<>>) EXCEPT !.node = a, !.forward = (opr = ">>"), !.reverse = (opr = "<<")]

\* the flags the operator sets on an Edge object that is written
Flag(e, opr) ==
  [e EXCEPT !.forward = (@ \/ opr = ">>"), !.reverse = (@ \/ opr = "<<")]

\* node a on the left of the operator: returns the right operand after
\* connecting, or the Edge object now holding a
NodeOp(a, opr, v) ==
  CASE v.k = "node" ->
         [val |-> v, new |-> <<Connect(a, v.id, FreshEdge(a, opr))>>, obj |-> NoObj]
    [] v.k = "list" ->
         [val |-> v,
          new |-> [i \in 1..Len(v.ids) |-> Connect(a, v.ids[i], FreshEdge(a, opr))],
          obj |-> NoObj]
    [] v.k = "edge" ->
         LET e == Flag(v, opr) IN
         IF opr = "<<" /\ e.node # 0
         THEN [val |-> NodeVal(a), new |-> <<Connect(e.node, a, e)>>, obj |-> e]
         ELSE [val |-> [e EXCEPT !.node = a], new |-> <<>>, obj |-> [e EXCEPT !.node = a]]
    [] OTHER -> [val |-> Err("TypeError"), new |-> <<>>, obj |-> NoObj]

\* Edge object v0 on the left of the operator
EdgeOp(v0, opr, v) ==
  LET e == Flag(v0, opr) IN
  CASE v.k = "node" ->
         IF e.node # 0
         THEN [val |-> v, new |-> <<Connect(e.node, v.id, e)>>, obj |-> e]
         ELSE [val |-> [e EXCEPT !.node = v.id], new |-> <<>>, obj |-> [e EXCEPT !.node = v.id]]
    [] v.k = "list" ->
         IF e.node # 0
         THEN [val |-> v,
               new |-> [i \in 1..Len(v.ids) |-> Connect(e.node, v.ids[i], e)],
               obj |-> e]
         ELSE [val |-> Err("AttributeError"), new |-> <<>>, obj |-> e]
    [] v.k = "edge" ->
         [val |-> [e EXCEPT !.attrs = v.attrs], new |-> <<>>,
          obj |-> [e EXCEPT !.attrs = v.attrs]]
    [] OTHER -> [val |-> Err("TypeError"), new |-> <<>>, obj |-> NoObj]

\* a list of nodes on the left of the operator, a node on the right
ListOp(ids, opr, v) ==
  IF v.k = "node"
  THEN [val |-> v,
        new |-> [i \in 1..Len(ids) |-> Connect(ids[i], v.id, FreshEdge(v.id, opr))],
        obj |-> NoObj]
  ELSE [val |-> Err("TypeError"), new |-> <<>>, obj |-> NoObj]

\* operators in which << and - are read as >>
BinOp_every_operator_forward(left, opr, right) ==
  CASE left.k = "node" -> NodeOp(left.id, ">>", right)
    [] left.k = "edge" -> EdgeOp(left, ">>", right)
    [] left.k = "list" -> ListOp(left.ids, ">>", right)
    [] OTHER -> [val |-> Err("TypeError"), new |-> <<>>, obj |-> NoObj]

BinOp(left, opr, right) ==
  CASE left.k = "node" -> NodeOp(left.id, opr, right)
    [] left.k = "edge" -> EdgeOp(left, opr, right)
    [] left.k = "list" -> ListOp(left.ids, opr, right)
    [] OTHER -> [val |-> Err("TypeError"), new |-> <<>>, obj |-> NoObj]

\* an Edge object held by a variable keeps what the operators stored in it
WriteBack(e, obj) ==
  IF obj.k = "edge" /\ obj.ref # "" THEN Bind(e, obj.ref, [obj EXCEPT !.ref = ""]) ELSE e

(***************************************************************************)
(* Evaluation of `first op arg op arg ...`, left to right: acc.val is the  *)
(* value of the expression so far, acc.new the edges it has appended.      *)
(***************************************************************************)
\* a chain in which a node stays the left operand of every operator that
\* follows it: a >> b >> c connects a to b and a to c
RECURSIVE EvalChain_keeping_left_node(_, _, _)
EvalChain_keeping_left_node(acc, steps, styles) ==
  IF acc.val.k = "error" \/ steps = <<>> THEN acc
  ELSE LET opr   == Head(steps)[1]
           right == EvalOperand(Head(steps)[2], acc.env, styles)
       IN  IF right.k = "error" THEN [acc EXCEPT !.val = right]
           ELSE LET r == BinOp(acc.val, opr, right) IN
                EvalChain_keeping_left_node(
                  [val |-> IF acc.val.k = "node" /\ r.val.k = "node" THEN acc.val ELSE r.val,
                   new |-> acc.new \o r.new,
                   env |-> WriteBack(acc.env, r.obj)],
                  Tail(steps), styles)

RECURSIVE EvalChain(_, _, _)
EvalChain(acc, steps, styles) ==
  IF acc.val.k = "error" \/ steps = <<>> THEN acc
  ELSE LET opr   == Head(steps)[1]
           right == EvalOperand(Head(steps)[2], acc.env, styles)
       IN  IF right.k = "error" THEN [acc EXCEPT !.val = right]
           ELSE LET r == BinOp(acc.val, opr, right) IN
                EvalChain([val |-> r.val,
                           new |-> acc.new \o r.new,
                           env |-> WriteBack(acc.env, r.obj)],
                          Tail(steps), styles)

(***************************************************************************)
(* Actions: one per kind of statement.                                     *)
(***************************************************************************)
Init ==
  /\ script \in ScriptNames
  /\ pc = 1
  /\ status = "running"
  /\ error = ""
  /\ clock = 0
  /\ env = <<>>
  /\ withs = <<>>
  /\ loops = <<>>
  /\ diagram = 0
  /\ opened = 0
  /\ cur = 0
  /\ nodes = <<>>
  /\ clusters = <<>>
  /\ edges = <<>>
  /\ exported = <<>>
  /\ printed = 0
  /\ attempts = 0
  /\ cwd = <<>>
  /\ environ \in Environments
  /\ previous = <<>>

\* an uncaught exception ends the run where it is raised
Raise(err) ==
  /\ status' = "crashed"
  /\ error' = err
  /\ UNCHANGED <<script, pc, clock, python, graph, library, output, outside>>

\* the statement completed: go to statement `next`
Goto(next) ==
  /\ pc' = next
  /\ clock' = clock + 1
  /\ UNCHANGED <<script, status, error, outside>>

\* with Diagram(...) [as var]:
OpenDiagram ==
  /\ Running("diagram")
  /\ diagram' = 1
  /\ opened' = opened + 1
  /\ cur' = 0
  /\ env' = IF Stmt.var = "" THEN env ELSE Bind(env, Stmt.var, [k |-> "diagram"])
  /\ Goto(pc + 1)
  /\ UNCHANGED <<withs, loops, graph, output>>

\* the node a constructor call creates in the current cluster
NewNodeRec(call, kw) ==
  [label |-> call.label, cls |-> call.cls, cluster |-> cur, attrs |-> kw,
   born |-> clock + 1, line |-> Stmt.line]

\* a constructor call that returns the node already built by the same class
\* with the same label, when there is one
NewNode_reusing_label ==
  /\ Running("node")
  /\ LET kw == Kwargs(Stmt, Styles(script))
         same == {n \in 1..Len(nodes) :
                    nodes[n].cls = Stmt.cls /\ nodes[n].label = Stmt.label}
     IN
     IF diagram = 0 THEN Raise("EnvironmentError")
     ELSE IF kw.err # "" THEN Raise(kw.err)
     ELSE IF same # {}
     THEN /\ env' = Bind(env, Stmt.var, NodeVal(CHOOSE n \in same : TRUE))
          /\ Goto(pc + 1)
          /\ UNCHANGED <<withs, loops, graph, library, output>>
     ELSE /\ nodes' = Append(nodes, NewNodeRec(Stmt, kw.val))
          /\ env' = Bind(env, Stmt.var, NodeVal(Len(nodes) + 1))
          /\ Goto(pc + 1)
          /\ UNCHANGED <<withs, loops, clusters, edges, library, output>>

\* a constructor call whose label is the first command-line argument, when
\* the script is started with one
NewNode_labelled_by_argument ==
  /\ Running("node")
  /\ LET kw == Kwargs(Stmt, Styles(script))
         label == IF environ.argv # <<>> THEN environ.argv[1] ELSE Stmt.label
     IN
     IF diagram = 0 THEN Raise("EnvironmentError")
     ELSE IF kw.err # "" THEN Raise(kw.err)
     ELSE /\ nodes' = Append(nodes, [NewNodeRec(Stmt, kw.val) EXCEPT !.label = label])
          /\ env' = Bind(env, Stmt.var, NodeVal(Len(nodes) + 1))
          /\ Goto(pc + 1)
          /\ UNCHANGED <<withs, loops, clusters, edges, library, output>>

\* var = Class(label, ...)
NewNode ==
  /\ Running("node")
  /\ LET kw == Kwargs(Stmt, Styles(script)) IN
     IF diagram = 0 THEN Raise("EnvironmentError")
     ELSE IF kw.err # "" THEN Raise(kw.err)
     ELSE /\ nodes' = Append(nodes, NewNodeRec(Stmt, kw.val))
          /\ env' = Bind(env, Stmt.var, NodeVal(Len(nodes) + 1))
          /\ Goto(pc + 1)
          /\ UNCHANGED <<withs, loops, clusters, edges, library, output>>

\* var = [Class(label), Class(label), ...]
NewNodes ==
  /\ Running("nodes")
  /\ LET items == Stmt.items
         n == Len(items)
     IN
     IF diagram = 0 THEN Raise("EnvironmentError")
     ELSE IF \E i \in 1..n : Kwargs(items[i], Styles(script)).err # "" THEN Raise("TypeError")
     ELSE /\ nodes' = nodes \o
                [i \in 1..n |-> NewNodeRec(items[i], Kwargs(items[i], Styles(script)).val)]
          /\ env' = Bind(env, Stmt.var, ListVal([i \in 1..n |-> Len(nodes) + i]))
          /\ Goto(pc + 1)
          /\ UNCHANGED <<withs, loops, clusters, edges, library, output>>

\* var = [name, name, ...]
BindList ==
  /\ Running("list")
  /\ LET v == EvalOperand(List(Stmt.names), env, Styles(script)) IN
     IF v.k = "error" THEN Raise(v.err)
     ELSE /\ env' = Bind(env, Stmt.var, v)
          /\ Goto(pc + 1)
          /\ UNCHANGED <<withs, loops, graph, library, output>>

\* the label expression of a Cluster(...) call
LabelOf(x) ==
  IF x.t = "lit" THEN [err |-> "", s |-> x.s]
  ELSE IF x.name \notin DOMAIN env THEN [err |-> "NameError", s |-> ""]
  ELSE IF env[x.name].k # "node" THEN [err |-> "AttributeError", s |-> ""]
  ELSE [err |-> "", s |-> nodes[env[x.name].id].label]

\* the cluster a Cluster(...) call creates: its parent is the current cluster
NewClusterRec(label) ==
  [label |-> label, parent |-> cur, graph_attr |-> Stmt.graph_attr,
   born |-> clock + 1, line |-> Stmt.line]

\* var = Cluster(label, ...)
NewCluster ==
  /\ Running("cluster")
  /\ LET l == LabelOf(Stmt.label) IN
     IF l.err # "" THEN Raise(l.err)
     ELSE IF diagram = 0 THEN Raise("EnvironmentError")
     ELSE /\ clusters' = Append(clusters, NewClusterRec(l.s))
          /\ env' = Bind(env, Stmt.var, [k |-> "cluster", id |-> Len(clusters) + 1])
          /\ Goto(pc + 1)
          /\ UNCHANGED <<withs, loops, nodes, edges, library, output>>

\* entering cluster c: it becomes the current cluster; the with-block
\* remembers the object it entered (before: the cluster current until then)
Enter(c) ==
  /\ cur' = c
  /\ withs' = Append(withs, [c |-> c, before |-> cur])
  /\ UNCHANGED <<diagram, opened>>

\* with Cluster(label, ...):
WithCluster ==
  /\ Running("with")
  /\ LET l == LabelOf(Stmt.label) IN
     IF l.err # "" THEN Raise(l.err)
     ELSE IF diagram = 0 THEN Raise("EnvironmentError")
     ELSE /\ clusters' = Append(clusters, NewClusterRec(l.s))
          /\ Enter(Len(clusters) + 1)
          /\ Goto(pc + 1)
          /\ UNCHANGED <<env, loops, nodes, edges, output>>

\* with var:
EnterCluster ==
  /\ Running("enter")
  /\ IF Stmt.var \notin DOMAIN env THEN Raise("NameError")
     ELSE IF env[Stmt.var].k # "cluster" THEN Raise("AttributeError")
     ELSE /\ Enter(env[Stmt.var].id)
          /\ Goto(pc + 1)
          /\ UNCHANGED <<env, loops, graph, output>>

\* the end of a cluster block: the parent of the cluster that was entered
\* becomes the current cluster
ExitCluster ==
  /\ Running("exit")
  /\ withs # <<>>
  /\ cur' = clusters[withs[Len(withs)].c].parent
  /\ withs' = SubSeq(withs, 1, Len(withs) - 1)
  /\ Goto(pc + 1)
  /\ UNCHANGED <<env, loops, graph, diagram, opened, output>>

\* for var in iter:
ForStart ==
  /\ Running("for")
  /\ LET v == EvalOperand(Stmt.iter, env, Styles(script)) IN
     IF v.k = "error" THEN Raise(v.err)
     ELSE IF v.k # "list" THEN Raise("TypeError")
     ELSE IF v.ids = <<>>
     THEN /\ Goto(Stmt.end + 1)
          /\ UNCHANGED <<python, graph, library, output>>
     ELSE /\ loops' = Append(loops, [start |-> pc, ids |-> v.ids, i |-> 1])
          /\ env' = Bind(env, Stmt.var, NodeVal(v.ids[1]))
          /\ Goto(pc + 1)
          /\ UNCHANGED <<withs, graph, library, output>>

\* the end of a for body: next element, or leave the loop
ForNext ==
  /\ Running("endfor")
  /\ loops # <<>>
  /\ LET top == loops[Len(loops)] IN
     IF top.i < Len(top.ids)
     THEN /\ loops' = [loops EXCEPT ![Len(loops)].i = top.i + 1]
          /\ env' = Bind(env, Body(script)[top.start].var, NodeVal(top.ids[top.i + 1]))
          /\ Goto(top.start + 1)
     ELSE /\ loops' = SubSeq(loops, 1, Len(loops) - 1)
          /\ env' = env
          /\ Goto(pc + 1)
  /\ UNCHANGED <<withs, graph, library, output>>

\* var = Edge(...)
EdgeAssign ==
  /\ Running("edge")
  /\ LET v == EvalOperand(Stmt.e, env, Styles(script)) IN
     IF v.k = "error" THEN Raise(v.err)
     ELSE /\ env' = Bind(env, Stmt.var, v)
          /\ Goto(pc + 1)
          /\ UNCHANGED <<withs, loops, graph, library, output>>

\* edges kept as a set of pairs: a declaration between nodes that are already
\* connected adds nothing
Chain_merging_duplicates ==
  /\ Running("chain")
  /\ LET first == EvalOperand(Stmt.first, env, Styles(script))
         r == EvalChain([val |-> first, new |-> <<>>, env |-> env], Stmt.steps, Styles(script))
         fresh == SelectSeq(r.new, LAMBDA x :
                    \A i \in 1..Len(edges) : edges[i].src # x.src \/ edges[i].dst # x.dst)
     IN
     IF r.val.k = "error" THEN Raise(r.val.err)
     ELSE /\ edges' = edges \o
                [i \in 1..Len(fresh) |->
                   [src |-> fresh[i].src, dst |-> fresh[i].dst, dir |-> fresh[i].dir,
                    attrs |-> fresh[i].attrs, born |-> clock + 1, line |-> Stmt.line]]
          /\ env' = r.env
          /\ Goto(pc + 1)
          /\ UNCHANGED <<withs, loops, nodes, clusters, library, output>>

\* a connection that moves its endpoints into the cluster that is current
Chain_adopting_endpoints ==
  /\ Running("chain")
  /\ LET first == EvalOperand(Stmt.first, env, Styles(script))
         r == EvalChain([val |-> first, new |-> <<>>, env |-> env], Stmt.steps, Styles(script))
         ends == {r.new[i].src : i \in 1..Len(r.new)} \cup {r.new[i].dst : i \in 1..Len(r.new)}
     IN
     IF r.val.k = "error" THEN Raise(r.val.err)
     ELSE /\ edges' = edges \o
                [i \in 1..Len(r.new) |->
                   [src |-> r.new[i].src, dst |-> r.new[i].dst, dir |-> r.new[i].dir,
                    attrs |-> r.new[i].attrs, born |-> clock + 1, line |-> Stmt.line]]
          /\ nodes' = [n \in 1..Len(nodes) |->
                         IF n \in ends THEN [nodes[n] EXCEPT !.cluster = cur] ELSE nodes[n]]
          /\ env' = r.env
          /\ Goto(pc + 1)
          /\ UNCHANGED <<withs, loops, clusters, library, output>>

\* first op arg op arg ...
Chain ==
  /\ Running("chain")
  /\ LET first == EvalOperand(Stmt.first, env, Styles(script))
         r == EvalChain([val |-> first, new |-> <<>>, env |-> env], Stmt.steps, Styles(script))
     IN
     IF r.val.k = "error" THEN Raise(r.val.err)
     ELSE /\ edges' = edges \o
                [i \in 1..Len(r.new) |->
                   [src |-> r.new[i].src, dst |-> r.new[i].dst, dir |-> r.new[i].dir,
                    attrs |-> r.new[i].attrs, born |-> clock + 1, line |-> Stmt.line]]
          /\ env' = r.env
          /\ Goto(pc + 1)
          /\ UNCHANGED <<withs, loops, nodes, clusters, library, output>>

\* an image named after the diagram's title, as when filename= is not given
File_named_after_title(s) == Scripts[s].name \o "." \o Scripts[s].outformat

\* an image named after its format alone
File_named_by_format(s) == "diagram." \o Scripts[s].outformat

\* the name of the image file the rendering writes
File(s) == Scripts[s].filename \o "." \o Scripts[s].outformat

\* directory d after script s has written file f
Written(d, f, s) == Bind(d, f, IF f \in DOMAIN d THEN Append(d[f], s) ELSE <<s>>)

\* what the rendering draws: the declared graph and the diagram-wide attributes
Drawing ==
  [nodes |-> nodes, clusters |-> clusters, edges |-> edges,
   graph_attr |-> GraphAttr(script), node_attr |-> NodeAttr(script),
   edge_attr |-> EdgeAttr(script), direction |-> Scripts[script].direction]

\* an export whose failure is swallowed: the script goes on after the block
Export_continuing_after_failure ==
  /\ Running("export")
  /\ diagram' = 0
  /\ attempts' = attempts + 1
  /\ UNCHANGED <<opened, cur, python, graph, printed>>
  /\ \E ok \in BOOLEAN :
       IF ok
       THEN /\ exported' = Append(exported, [filename |-> Scripts[script].filename,
                                             outformat |-> Scripts[script].outformat,
                                             file |-> File(script),
                                             content |-> Drawing])
            /\ cwd' = Written(cwd, File(script), script)
            /\ Goto(pc + 1)
       ELSE /\ exported' = exported
            /\ cwd' = cwd
            /\ Goto(pc + 1)

\* a rendering that consumes the edges it draws
Export_consuming_edges ==
  /\ Running("export")
  /\ diagram' = 0
  /\ attempts' = attempts + 1
  /\ edges' = <<>>
  /\ UNCHANGED <<opened, cur, python, nodes, clusters, printed>>
  /\ \E ok \in BOOLEAN :
       IF ok
       THEN /\ exported' = Append(exported, [filename |-> Scripts[script].filename,
                                             outformat |-> Scripts[script].outformat,
                                             file |-> File(script),
                                             content |-> Drawing])
            /\ cwd' = Written(cwd, File(script), script)
            /\ Goto(pc + 1)
       ELSE /\ exported' = exported
            /\ cwd' = cwd
            /\ status' = "crashed"
            /\ error' = "RenderError"
            /\ UNCHANGED <<script, pc, clock, outside>>

\* the end of the Diagram block: the graph is rendered to filename.outformat;
\* a failure of the rendering ends the run
Export ==
  /\ Running("export")
  /\ diagram' = 0
  /\ attempts' = attempts + 1
  /\ UNCHANGED <<opened, cur, python, graph, printed>>
  /\ \E ok \in BOOLEAN :
       IF ok
       THEN /\ exported' = Append(exported, [filename |-> Scripts[script].filename,
                                             outformat |-> Scripts[script].outformat,
                                             file |-> File(script),
                                             content |-> Drawing])
            /\ cwd' = Written(cwd, File(script), script)
            /\ Goto(pc + 1)
       ELSE /\ exported' = exported
            /\ cwd' = cwd
            /\ status' = "crashed"
            /\ error' = "RenderError"
            /\ UNCHANGED <<script, pc, clock, outside>>

\* print(...)
print_call ==
  /\ Running("print")
  /\ printed' = printed + 1
  /\ Goto(pc + 1)
  /\ UNCHANGED <<python, graph, library, exported, attempts, cwd>>

\* a bare name as a statement: the variable is looked up, nothing else
NameStmt ==
  /\ Running("name")
  /\ IF Stmt.var \notin DOMAIN env THEN Raise("NameError")
     ELSE /\ Goto(pc + 1)
          /\ UNCHANGED <<python, graph, library, output>>

\* the script ran off its last statement
Finish ==
  /\ status = "running"
  /\ pc = Len(Body(script)) + 1
  /\ status' = "exited"
  /\ UNCHANGED <<script, pc, error, clock, python, graph, library, output, outside>>

Next ==
  \/ OpenDiagram
  \/ NewNode
  \/ NewNodes
  \/ BindList
  \/ NewCluster
  \/ WithCluster
  \/ EnterCluster
  \/ ExitCluster
  \/ ForStart
  \/ ForNext
  \/ EdgeAssign
  \/ Chain
  \/ Export
  \/ print_call
  \/ NameStmt
  \/ Finish

Spec == Init /\ [][Next]_vars

(***************************************************************************)
(* The script run again: a new process, started in any environment, in the *)
(* working directory the earlier run left behind.                          *)
(***************************************************************************)
MaxRuns == 2

Rerun ==
  /\ status \in {"exited", "crashed"}
  /\ Len(previous) < MaxRuns - 1
  /\ previous' = Append(previous, [environ |-> environ, nodes |-> nodes,
                                    clusters |-> clusters, edges |-> edges])
  /\ environ' \in Environments
  /\ pc' = 1
  /\ status' = "running"
  /\ error' = ""
  /\ clock' = 0
  /\ env' = <<>>
  /\ withs' = <<>>
  /\ loops' = <<>>
  /\ diagram' = 0
  /\ opened' = 0
  /\ cur' = 0
  /\ nodes' = <<>>
  /\ clusters' = <<>>
  /\ edges' = <<>>
  /\ exported' = <<>>
  /\ printed' = 0
  /\ attempts' = 0
  /\ UNCHANGED <<script, cwd>>

NextRerun == Next \/ Rerun

SpecRerun == Init /\ [][NextRerun]_vars

(***************************************************************************)
(* Another script run in the same working directory while this one runs:   *)
(* a separate process, whose only effect here is the image file it writes. *)
(***************************************************************************)
MaxOthers == 1

\* the number of writes to the working directory made by other scripts
OtherWrites ==
  LET RECURSIVE Sum(_)
      Sum(fs) == IF fs = {} THEN 0
                 ELSE LET f == CHOOSE x \in fs : TRUE IN
                      Len(SelectSeq(cwd[f], LAMBDA w : w # script)) + Sum(fs \ {f})
  IN Sum(DOMAIN cwd)

OtherExport ==
  /\ OtherWrites < MaxOthers
  /\ \E o \in ScriptNames \ {script} : cwd' = Written(cwd, File(o), o)
  /\ UNCHANGED <<control, python, graph, library, exported, printed, attempts, outside>>

NextShared == Next \/ OtherExport

SpecShared == Init /\ [][NextShared]_vars

(***************************************************************************)
(* Vocabulary of the properties.                                           *)
(***************************************************************************)
\* the node a variable is bound to
N(v) == env[v].id

\* the innermost open cluster block (0: none, the diagram itself)
Innermost == IF withs = <<>> THEN 0 ELSE withs[Len(withs)].c

\* the Diagram block has been left and the image written
Exported == exported # <<>>

\* the run ended without an exception of the script's own making
NoScriptError == error \in {"", "RenderError"}

NodeIds == 1..Len(nodes)
EdgeIds == 1..Len(edges)
ClusterIds == 1..Len(clusters)

\* the edges declared by the statement at a source line
EdgesAt(line) == {i \in EdgeIds : edges[i].line = line}

\* the edges from node a to node b
EdgesBetween(a, b) == {i \in EdgeIds : edges[i].src = a /\ edges[i].dst = b}

\* cluster c is cluster d or lies inside it
RECURSIVE Inside(_, _)
Inside(c, d) ==
  IF c = d THEN TRUE
  ELSE IF c = 0 THEN FALSE
  ELSE Inside(clusters[c].parent, d)

\* the cluster with a given label, when there is exactly one
ClusterNamed(l) == CHOOSE c \in ClusterIds : clusters[c].label = l

(***************************************************************************)
(* C1.  Whenever an edge is declared, in any script, its source and its    *)
(* target are nodes constructed earlier in the same run, and the edge is   *)
(* declared while the script's one Diagram is open; no run ends in a       *)
(* reference to a name that was never assigned.                            *)
(***************************************************************************)
EndpointsExist ==
  \A i \in EdgeIds :
    /\ edges[i].src \in NodeIds
    /\ edges[i].dst \in NodeIds
    /\ nodes[edges[i].src].born < edges[i].born
    /\ nodes[edges[i].dst].born < edges[i].born

C1_NoDanglingEdge ==
  /\ [](NoScriptError /\ opened <= 1 /\ EndpointsExist)
  /\ [][Len(edges') > Len(edges) => diagram = 1]_vars

\* the AWS EKS script has run its last for-loop: `ecr >> Edge(...) >> node_instance`
\* (line 166) has connected the registry to the third worker node
C1_Witness ==
  /\ script = "aws_eks_deployment_diagram"
  /\ status = "exited"
  /\ \E i \in EdgesAt(166) :
       /\ edges[i].src = N("ecr")
       /\ nodes[edges[i].dst].label = "Worker Node 3"

(***************************************************************************)
(* C2.  The clusters of every script form a tree rooted at the diagram:    *)
(* the parent of a cluster is the diagram or a cluster constructed before  *)
(* it, it is the cluster (or the diagram) that was open when the cluster   *)
(* was entered, and no cluster lies inside itself.                         *)
(***************************************************************************)
RECURSIVE Depth(_)
Depth(c) == IF c = 0 THEN 0 ELSE 1 + Depth(clusters[c].parent)

C2_ClusterTree ==
  /\ \A c \in ClusterIds :
       /\ clusters[c].parent \in 0..(c - 1)
       /\ ~Inside(clusters[c].parent, c)
  /\ \A k \in 1..Len(withs) :
       /\ clusters[withs[k].c].parent = withs[k].before
       /\ Depth(withs[k].c) = k

\* the AWS EKS script is inside a per-pod cluster, nine levels deep
C2_Witness ==
  /\ script = "aws_eks_deployment_diagram"
  /\ Len(withs) = 9
  /\ clusters[cur].label = "Pod 2"
  /\ clusters[clusters[cur].parent].label = "Order Service"

(***************************************************************************)
(* C3.  A node is registered in the innermost cluster that is open when    *)
(* its constructor runs (the diagram when none is open) and stays there.   *)
(* In the AWS EKS script the four database and cache nodes are in          *)
(* "Databases (Managed AWS Services)", whose parent is "Private Subnets"   *)
(* and which is not inside "EKS Cluster (Managed Kubernetes)".             *)
(***************************************************************************)
DatabaseNodes == {N("user_db"), N("product_db"), N("order_db"), N("cache_redis")}

DatabasesOutsideEKS ==
  (script = "aws_eks_deployment_diagram" /\ "cache_redis" \in DOMAIN env) =>
    LET db == ClusterNamed("Databases (Managed AWS Services)") IN
    /\ {n \in NodeIds : nodes[n].cluster = db} = DatabaseNodes
    /\ Cardinality(DatabaseNodes) = 4
    /\ clusters[db].parent = ClusterNamed("Private Subnets")
    /\ ~Inside(db, ClusterNamed("EKS Cluster (Managed Kubernetes)"))

C3_NodeInInnermostCluster ==
  /\ []DatabasesOutsideEKS
  /\ [][/\ \A n \in (Len(nodes) + 1)..Len(nodes') : nodes'[n].cluster = Innermost
        /\ \A n \in NodeIds : nodes'[n].cluster = nodes[n].cluster]_vars

\* the AWS EKS script has constructed the cache node and finished
C3_Witness ==
  /\ script = "aws_eks_deployment_diagram"
  /\ status = "exited"
  /\ clusters[nodes[N("cache_redis")].cluster].label = "Databases (Managed AWS Services)"
  /\ clusters[nodes[N("eks_control_plane")].cluster].label = "EKS Cluster (Managed Kubernetes)"

(***************************************************************************)
(* C4.  Cluster scopes are balanced: entering a cluster block makes that   *)
(* cluster current and opens one more block, leaving it makes current the  *)
(* cluster that was current before the entry, also for a Cluster object    *)
(* constructed first and entered later; when the Diagram block is left no  *)
(* cluster block is open.                                                  *)
(***************************************************************************)
C4_ScopesBalanced ==
  /\ [](cur = Innermost)
  /\ [](opened = 1 /\ diagram = 0 => withs = <<>> /\ cur = 0)
  /\ [][/\ Running("exit") =>
            /\ cur' = withs[Len(withs)].before
            /\ withs' = SubSeq(withs, 1, Len(withs) - 1)
        /\ (Running("with") \/ Running("enter")) /\ status' = "running" =>
            /\ Len(withs') = Len(withs) + 1
            /\ cur' = withs'[Len(withs')].c
            /\ withs'[Len(withs')].before = cur]_vars

\* the AWS EKS script has left the block of nodes_group, which it had
\* constructed on line 53 and entered on line 54
C4_Witness ==
  /\ script = "aws_eks_deployment_diagram"
  /\ "nodes" \in DOMAIN env
  /\ "prometheus" \notin DOMAIN env
  /\ pc = StmtIdx(script, 61, "with")
  /\ clusters[cur].label = "Kubernetes Worker Nodes (EC2 Instances)"

(***************************************************************************)
(* C5.  The system context script exports exactly six nodes: the two       *)
(* actors Customer and Admin User, the system node, alone in the only      *)
(* cluster, and three external systems; and exactly five directed edges:   *)
(* customer -> system, admin -> system, system -> payment gateway,         *)
(* system -> shipping provider, system -> identity provider.               *)
(***************************************************************************)
C5_SystemContextGraph ==
  (script = "c1_system_context_diagram" /\ Exported) =>
    LET sys == N("ecommerce_system")
        actors == {n \in NodeIds : nodes[n].cls = "User"}
        externals == {n \in NodeIds : nodes[n].cls # "User" /\ nodes[n].cluster = 0}
    IN
    /\ Len(nodes) = 6
    /\ actors = {N("customer"), N("admin_user")}
    /\ Cardinality(actors) = 2
    /\ Len(clusters) = 1
    /\ {n \in NodeIds : nodes[n].cluster = 1} = {sys}
    /\ externals = {N("payment_gateway"), N("shipping_provider"), N("identity_provider")}
    /\ Cardinality(externals) = 3
    /\ Len(edges) = 5
    /\ {<<edges[i].src, edges[i].dst, edges[i].dir>> : i \in EdgeIds} =
         { <<N("customer"), sys, "forward">>,
           <<N("admin_user"), sys, "forward">>,
           <<sys, N("payment_gateway"), "forward">>,
           <<sys, N("shipping_provider"), "forward">>,
           <<sys, N("identity_provider"), "forward">> }

\* the system context script has exported its diagram and printed its message
C5_Witness ==
  /\ script = "c1_system_context_diagram"
  /\ Exported
  /\ printed = 1
  /\ status = "exited"

(***************************************************************************)
(* C6.  In the container script the message broker has, at export,         *)
(* exactly five inbound publish edges and exactly six outbound consume     *)
(* edges (PaymentProcessed is consumed by two services).                   *)
(***************************************************************************)
BrokerIn == {i \in EdgeIds : edges[i].dst = N("message_broker")}
BrokerOut == {i \in EdgeIds : edges[i].src = N("message_broker")}

C6_BrokerEdges ==
  (script = "c2_container_diagram" /\ Exported) =>
    /\ Cardinality(BrokerIn) = 5
    /\ Cardinality(BrokerOut) = 6
    /\ \A i \in BrokerIn \cup BrokerOut : edges[i].dir = "forward"
    /\ {edges[i].attrs.label : i \in BrokerIn} =
         { "Publishes OrderCreated event", "Publishes PaymentProcessed event",
           "Publishes ProductUpdated event", "Publishes StockUpdated event",
           "Publishes UserRegistered event" }
    /\ {<<edges[i].attrs.label, edges[i].dst>> : i \in BrokerOut} =
         { <<"OrderCreated event", N("notification_service")>>,
           <<"PaymentProcessed event", N("order_service")>>,
           <<"ProductUpdated event", N("search_service_container")>>,
           <<"PaymentProcessed event", N("notification_service")>>,
           <<"StockUpdated event", N("product_service")>>,
           <<"UserRegistered event", N("notification_service")>> }

\* the claim as stated: five inbound and five outbound edges
C6_Original ==
  (script = "c2_container_diagram" /\ Exported) =>
    /\ Cardinality(BrokerIn) = 5
    /\ Cardinality(BrokerOut) = 5

\* the container script has exported its diagram
C6_Witness ==
  /\ script = "c2_container_diagram"
  /\ Exported
  /\ BrokerOut # {}
  /\ BrokerIn # {}

(***************************************************************************)
(* C7.  A chain a >> b >> c appends exactly the edges a -> b and b -> c,   *)
(* never a -> c, and an Edge object written in a chain gives its label and *)
(* style to the one hop it sits in.  In the disaster-recovery script       *)
(* `dns >> Edge(color="green", label="active") >> waf >> primary_alb >>    *)
(* primary_eks` adds exactly dns -> waf, waf -> primary_alb and            *)
(* primary_alb -> primary_eks, and only dns -> waf is labelled and green.  *)
(***************************************************************************)
\* the dictionary a name denotes in the running script ("" denotes none)
ClassDict(class) == IF class = "" THEN <<>> ELSE Styles(script)[class]

\* instance keys over class keys over diagram-wide keys
ThreeLevel(inst, class, global) ==
  [k \in DOMAIN inst \cup DOMAIN class \cup DOMAIN global |->
     IF k \in DOMAIN inst THEN inst[k]
     ELSE IF k \in DOMAIN class THEN class[k]
     ELSE global[k]]

\* every operand of the statement is a bound node variable or an Edge(...)
\* call, and every operator is >>
PlainChain(st) ==
  /\ st.first.t = "var" /\ st.first.name \in DOMAIN env /\ env[st.first.name].k = "node"
  /\ \A k \in 1..Len(st.steps) :
       /\ st.steps[k][1] = ">>"
       /\ \/ st.steps[k][2].t = "edge"
          \/ /\ st.steps[k][2].t = "var"
             /\ st.steps[k][2].name \in DOMAIN env
             /\ env[st.steps[k][2].name].k = "node"

\* the hops a plain chain declares, in order: prev is the node on the left,
\* pending the attributes of the Edge object written since, if any
RECURSIVE Hops(_, _, _)
Hops(prev, pending, steps) ==
  IF steps = <<>> THEN <<>>
  ELSE LET x == Head(steps)[2] IN
       IF x.t = "edge"
       THEN Hops(prev, ThreeLevel(x.inst, ClassDict(x.class), <<>>), Tail(steps))
       ELSE <<[src |-> prev, dst |-> N(x.name), attrs |-> pending]>>
            \o Hops(N(x.name), <<>>, Tail(steps))

NewEdges == [i \in 1..(Len(edges') - Len(edges)) |->
               [src |-> edges'[Len(edges) + i].src,
                dst |-> edges'[Len(edges) + i].dst,
                attrs |-> edges'[Len(edges) + i].attrs]]

ActiveFlow ==
  (script = "disaster_recovery_deployment_diagram" /\ Exported) =>
    /\ Cardinality(EdgesAt(134)) = 3
    /\ \E i, j, k \in EdgesAt(134) :
         /\ edges[i].src = N("dns") /\ edges[i].dst = N("waf")
         /\ edges[i].attrs = [color |-> "green", label |-> "active"]
         /\ edges[j].src = N("waf") /\ edges[j].dst = N("primary_alb")
         /\ edges[j].attrs = <<>>
         /\ edges[k].src = N("primary_alb") /\ edges[k].dst = N("primary_eks")
         /\ edges[k].attrs = <<>>
    /\ EdgesBetween(N("dns"), N("primary_alb")) = {}
    /\ EdgesBetween(N("dns"), N("primary_eks")) = {}
    /\ EdgesBetween(N("waf"), N("primary_eks")) = {}

C7_FluentChain ==
  /\ []ActiveFlow
  /\ [][(Running("chain") /\ status' = "running" /\ PlainChain(Stmt)) =>
          /\ NewEdges = Hops(N(Stmt.first.name), <<>>, Stmt.steps)
          /\ \A i \in (Len(edges) + 1)..Len(edges') : edges'[i].dir = "forward"]_vars

\* the disaster-recovery script has run the chain of line 134
C7_Witness ==
  /\ script = "disaster_recovery_deployment_diagram"
  /\ Exported
  /\ \E i \in EdgesAt(134) : edges[i].dst = N("primary_eks")

(***************************************************************************)
(* C8.  The edges of a diagram only grow, one edge per declaration, and a  *)
(* declaration between two nodes that are already connected adds a second  *)
(* edge: after the container script there are two edges inventory_service  *)
(* -> inventory_db and two edges search_service_container -> search_index, *)
(* after the data-flow script two edges fulfill_process -> order_db.       *)
(***************************************************************************)
\* the number of nodes operand x stands for
Fanout(x) ==
  CASE x.t = "edge" -> 0
    [] x.t = "list" -> Len(x.names)
    [] x.t = "idx" -> 1
    [] x.t = "var" -> IF env[x.name].k = "list" THEN Len(env[x.name].ids)
                      ELSE IF env[x.name].k = "node" THEN 1
                      ELSE 0

\* the number of edges a chain statement declares: one per node to the right
\* of an operator
RECURSIVE Declared(_)
Declared(steps) ==
  IF steps = <<>> THEN 0 ELSE Fanout(Head(steps)[2]) + Declared(Tail(steps))

DuplicateEdges ==
  /\ (script = "c2_container_diagram" /\ Exported) =>
       /\ Cardinality(EdgesBetween(N("inventory_service"), N("inventory_db"))) = 2
       /\ Cardinality(EdgesBetween(N("search_service_container"), N("search_index"))) = 2
  /\ (script = "data_flow_diagram" /\ Exported) =>
       Cardinality(EdgesBetween(N("fulfill_process"), N("order_db"))) = 2

C8_EdgesOnlyGrow ==
  /\ []DuplicateEdges
  /\ [][/\ Len(edges') >= Len(edges)
        /\ SubSeq(edges', 1, Len(edges)) = edges
        /\ (Running("chain") /\ status' = "running") =>
              Len(edges') = Len(edges) + Declared(Stmt.steps)
        /\ ~Running("chain") => edges' = edges]_vars

\* the data-flow script has declared its second fulfill_process -> order_db edge
C8_Witness ==
  /\ script = "data_flow_diagram"
  /\ Exported
  /\ {edges[i].attrs.label : i \in EdgesBetween(N("fulfill_process"), N("order_db"))}
       = {"Order info", "Update status"}

(***************************************************************************)
(* C9.  A node is one constructor call: every call adds one node, nothing  *)
(* else adds or changes a node, and nodes built with the same label are    *)
(* distinct, each in its own cluster with its own edges.  The AWS EKS      *)
(* script builds eight Pod("Pod 1")/Pod("Pod 2") nodes (two in each of     *)
(* User Service, Product Service, Order Service and RabbitMQ Cluster) and  *)
(* three Deployment("Deployment") nodes; the disaster-recovery script      *)
(* builds two Service("Service Mesh") nodes.                               *)
(***************************************************************************)
Built(cls, label) == {n \in NodeIds : nodes[n].cls = cls /\ nodes[n].label = label}

PodNodes == Built("Pod", "Pod 1") \cup Built("Pod", "Pod 2")

InClusterNamed(n, l) == nodes[n].cluster # 0 /\ clusters[nodes[n].cluster].label = l

\* the nodes that node d has an edge to
Targets(d) == {edges[i].dst : i \in {j \in EdgeIds : edges[j].src = d}}
\* the nodes that have an edge to node d
Sources(d) == {edges[i].src : i \in {j \in EdgeIds : edges[j].dst = d}}

SameLabelNodesAWS ==
  (script = "aws_eks_deployment_diagram" /\ Exported) =>
    LET deps == Built("Deployment", "Deployment") IN
    /\ Cardinality(PodNodes) = 8
    /\ \A l \in {"User Service", "Product Service", "Order Service", "RabbitMQ Cluster"} :
         /\ Cardinality({n \in Built("Pod", "Pod 1") : InClusterNamed(n, l)}) = 1
         /\ Cardinality({n \in Built("Pod", "Pod 2") : InClusterNamed(n, l)}) = 1
    /\ deps = {N("user_svc_deploy"), N("product_svc_deploy"), N("order_svc_deploy")}
    /\ Cardinality(deps) = 3
    /\ InClusterNamed(N("user_svc_deploy"), "User Service")
    /\ InClusterNamed(N("product_svc_deploy"), "Product Service")
    /\ InClusterNamed(N("order_svc_deploy"), "Order Service")
    \* each deployment is connected to the two pods of its own cluster only
    /\ \A d \in deps :
         /\ Cardinality(Targets(d) \cap PodNodes) = 2
         /\ \A n \in Targets(d) \cap PodNodes : nodes[n].cluster = nodes[d].cluster
    /\ \A n \in PodNodes : Cardinality(Sources(n)) = 1
    /\ N("user_db") \in Targets(N("user_svc_deploy"))
    /\ N("user_db") \notin Targets(N("product_svc_deploy")) \cup Targets(N("order_svc_deploy"))

SameLabelNodesDR ==
  (script = "disaster_recovery_deployment_diagram" /\ Exported) =>
    LET meshes == Built("Service", "Service Mesh") IN
    /\ meshes = {N("primary_service_mesh"), N("dr_service_mesh")}
    /\ Cardinality(meshes) = 2
    /\ InClusterNamed(N("primary_service_mesh"), "Primary Microservices")
    /\ InClusterNamed(N("dr_service_mesh"), "DR Microservices")
    /\ \A m \in meshes :
         /\ Cardinality(Sources(m)) = 4
         /\ \A n \in Sources(m) : nodes[n].cluster = nodes[m].cluster

\* the nodes a statement constructs
Calls(st) ==
  CASE st.op = "node" -> 1
    [] st.op = "nodes" -> Len(st.items)
    [] OTHER -> 0

C9_NodePerCall ==
  /\ [](SameLabelNodesAWS /\ SameLabelNodesDR)
  /\ [][/\ SubSeq(nodes', 1, Len(nodes)) = nodes
        /\ (status = "running" /\ pc <= Len(Body(script)) /\ status' = "running") =>
              Len(nodes') = Len(nodes) + Calls(Stmt)
        /\ (Running("node") /\ status' = "running") =>
              env'[Stmt.var] = NodeVal(Len(nodes'))
        /\ (Running("nodes") /\ status' = "running") =>
              env'[Stmt.var].ids = [i \in 1..Len(Stmt.items) |-> Len(nodes) + i]]_vars

\* the claim as stated: the Pod("Pod 1")/Pod("Pod 2") nodes of the AWS EKS
\* script are six
C9_Original ==
  (script = "aws_eks_deployment_diagram" /\ Exported) => Cardinality(PodNodes) = 6

\* the AWS EKS script has exported three distinct Deployment("Deployment") nodes
C9_Witness ==
  /\ script = "aws_eks_deployment_diagram"
  /\ Exported
  /\ nodes[N("user_svc_deploy")].label = nodes[N("order_svc_deploy")].label
  /\ N("user_svc_deploy") # N("order_svc_deploy")
  /\ Cardinality(Built("Pod", "Pod 1")) = 4

(***************************************************************************)
(* C11.  The declared graph is a function of the script text alone: a run  *)
(* of a script declares, step by step, the same nodes (label, category,    *)
(* cluster), the same edges (source, target, label, style) and the same    *)
(* clusters as every earlier run of that script, whatever arguments and    *)
(* environment variables each run was started with and whatever the        *)
(* earlier run left in the working directory.                              *)
(***************************************************************************)
\* sequence s is the beginning of sequence t
Prefix(s, t) == Len(s) <= Len(t) /\ s = SubSeq(t, 1, Len(s))

\* the run has reached the end of its Diagram block
GraphBuilt == attempts > 0

SameGraphAs(p) ==
  /\ Prefix(nodes, p.nodes)
  /\ Prefix(clusters, p.clusters)
  /\ Prefix(edges, p.edges)
  /\ GraphBuilt => (nodes = p.nodes /\ clusters = p.clusters /\ edges = p.edges)

AfterBlock(s) ==
  LET b == Body(s)
      e == CHOOSE i \in 1..Len(b) : b[i].op = "export"
  IN  {b[i].op : i \in (e + 1)..Len(b)}

OneExport ==
  /\ opened <= 1
  /\ attempts <= 1
  /\ Len(exported) <= 1
  /\ attempts = 1 => (opened = 1 /\ diagram = 0)
  /\ status = "exited" => (attempts = 1 /\ Len(exported) = 1)
  /\ (GraphBuilt /\ status = "running" /\ pc <= Len(Body(script))) =>
        Stmt.op \in {"print", "name"}
  /\ AfterBlock(script) \subseteq {"print", "name"}

C13_BuildExportExit ==
  /\ []OneExport
  /\ [][/\ (nodes' # nodes \/ clusters' # clusters \/ edges' # edges) =>
              (diagram = 1 /\ attempts = 0)
        /\ GraphBuilt => (nodes' = nodes /\ clusters' = clusters /\ edges' = edges)
        /\ attempts' >= attempts
        /\ (status # "running") => (status' = status)]_vars

\* the data-flow script has exited after its export and its nine prints, the
\* invisible edges of lines 177-180 declared
C13_Witness ==
  /\ script = "data_flow_diagram"
  /\ status = "exited"
  /\ attempts = 1
  /\ printed = 9
  /\ EdgesAt(180) # {}

(***************************************************************************)
(* C14.  A failed export ends the run with that failure: the export is     *)
(* attempted at most once, a run that has crashed takes no further step,   *)
(* no image is written and nothing is printed by a run whose export        *)
(* failed; the prints after the Diagram block happen only in runs whose    *)
(* export succeeded.                                                       *)
(***************************************************************************)
FailedExportIsFinal ==
  /\ attempts <= 1
  /\ error = "RenderError" =>
       (status = "crashed" /\ attempts = 1 /\ exported = <<>> /\ printed = 0 /\ cwd = <<>>)
  /\ printed > 0 => (Len(exported) = 1 /\ error = "")
  /\ status = "exited" => error = ""

C14_ExportFailureEndsRun ==
  /\ []FailedExportIsFinal
  /\ [][/\ status # "crashed"
        /\ Running("export") =>
             \/ (status' = "running" /\ pc' = pc + 1 /\ Len(exported') = Len(exported) + 1)
             \/ (status' = "crashed" /\ error' = "RenderError" /\ pc' = pc
                   /\ exported' = exported /\ printed' = printed)]_vars

\* the system context script has crashed in its export, its graph complete
C14_Witness ==
  /\ script = "c1_system_context_diagram"
  /\ status = "crashed"
  /\ error = "RenderError"
  /\ attempts = 1
  /\ printed = 0
  /\ Len(nodes) = 6

(***************************************************************************)
(* C15.  Every script opens exactly one Diagram; a run that exits has      *)
(* exported exactly once and written exactly one file, named by the fixed  *)
(* filename of the script with the extension .jpg; all sixteen scripts     *)
(* give outformat "jpg" and show False.                                    *)
(***************************************************************************)
\* the number of statements of kind op in script s
CountOf(s, op) == Cardinality({i \in 1..Len(Body(s)) : Body(s)[i].op = op})

OneJpgPerScript ==
  \A s \in ScriptNames :
    /\ CountOf(s, "diagram") = 1
    /\ CountOf(s, "export") = 1
    /\ Scripts[s].outformat = "jpg"
    /\ Scripts[s].show = FALSE
    /\ Scripts[s].filename = s
    /\ File(s) = s \o ".jpg"

C15_OneOutputFile ==
  /\ OneJpgPerScript
  /\ opened <= 1
  /\ Len(exported) <= 1
  /\ Cardinality(DOMAIN cwd) <= 1
  /\ status = "exited" =>
       /\ opened = 1
       /\ attempts = 1
       /\ Len(exported) = 1
       /\ exported[1].file = Scripts[script].filename \o ".jpg"
       /\ DOMAIN cwd = {exported[1].file}
       /\ cwd[exported[1].file] = <<script>>
  /\ (script = "cicd_pipeline_diagram" /\ Exported) =>
       exported[1].file = "cicd_pipeline_diagram.jpg"
  /\ (script = "communication_styles_patterns_diagram" /\ Exported) =>
       exported[1].file = "communication_styles_patterns_diagram.jpg"

\* the CI/CD script has exited and left its one image in the directory
C15_Witness ==
  /\ script = "cicd_pipeline_diagram"
  /\ status = "exited"
  /\ opened = 1
  /\ DOMAIN cwd = {"cicd_pipeline_diagram.jpg"}

(***************************************************************************)
(* C16.  Scripts do not interfere: the sixteen output files have pairwise  *)
(* distinct names, so in a working directory shared with other scripts     *)
(* every file has a single writer, the script it belongs to; another       *)
(* script's export leaves this script's image, graph and run untouched and *)
(* this script's export leaves the other files untouched.                  *)
(***************************************************************************)
DistinctFiles ==
  \A s, t \in ScriptNames : s # t => File(s) # File(t)

SingleWriter ==
  \A f \in DOMAIN cwd : \A i \in 1..Len(cwd[f]) :
    /\ cwd[f][i] = cwd[f][1]
    /\ File(cwd[f][i]) = f

OwnFile ==
  /\ Len(exported) = 1 => cwd[File(script)] = <<script>>
  /\ exported = <<>> => File(script) \notin DOMAIN cwd

C16_NoInterference ==
  /\ [](DistinctFiles /\ SingleWriter /\ OwnFile)
  /\ [][/\ (cwd' # cwd /\ exported' = exported) =>
              /\ UNCHANGED <<control, python, graph, library, printed>>
              /\ File(script) \in DOMAIN cwd' <=> File(script) \in DOMAIN cwd
              /\ File(script) \in DOMAIN cwd => cwd'[File(script)] = cwd[File(script)]
        /\ exported' # exported =>
              /\ DOMAIN cwd' = DOMAIN cwd \cup {File(script)}
              /\ \A f \in DOMAIN cwd \ {File(script)} : cwd'[f] = cwd[f]]_vars

\* the user-service script has exported in a directory in which the
\* observability script has written its image too
C16_Witness ==
  /\ script = "c3_user_service_diagram"
  /\ Len(exported) = 1
  /\ DOMAIN cwd = {"c3_user_service_diagram.jpg", "observability_stack_diagram.jpg"}
  /\ cwd["observability_stack_diagram.jpg"] = <<"observability_stack_diagram">>

(***************************************************************************)
(* C17.  In the communication-styles script every edge carries exactly one *)
(* of the two style classes, synchronous (solid, #0078d7) or asynchronous  *)
(* (dashed, #ff8c00); every edge that leaves the API Gateway is            *)
(* synchronous and every edge that touches the Message Broker is           *)
(* asynchronous.                                                           *)
(***************************************************************************)
\* the attributes of edge i are those of dictionary d, plus a label
HasClass(i, d) ==
  /\ DOMAIN edges[i].attrs = DOMAIN d \cup {"label"}
  /\ \A k \in DOMAIN d : edges[i].attrs[k] = d[k]

Synchronous(i) ==
  /\ HasClass(i, Styles(script)["sync_edge_attrs"])
  /\ edges[i].attrs["style"] = "solid"
  /\ edges[i].attrs["color"] = "#0078d7"

Asynchronous(i) ==
  /\ HasClass(i, Styles(script)["async_edge_attrs"])
  /\ edges[i].attrs["style"] = "dashed"
  /\ edges[i].attrs["color"] = "#ff8c00"

C17_SyncOrAsync ==
  script = "communication_styles_patterns_diagram" =>
    /\ \A i \in EdgeIds :
         /\ Synchronous(i) \/ Asynchronous(i)
         /\ ~(Synchronous(i) /\ Asynchronous(i))
         /\ edges[i].src = N("gateway") => Synchronous(i)
         /\ N("broker") \in {edges[i].src, edges[i].dst} => Asynchronous(i)
    /\ Exported =>
         /\ Cardinality({i \in EdgeIds : Synchronous(i)}) = 7
         /\ Cardinality({i \in EdgeIds : Asynchronous(i)}) = 8
         /\ Cardinality({i \in EdgeIds : edges[i].src = N("gateway")}) = 5
         /\ Cardinality({i \in EdgeIds : N("broker") \in {edges[i].src, edges[i].dst}}) = 7

\* the communication-styles script has exported edges of both classes
C17_Witness ==
  /\ script = "communication_styles_patterns_diagram"
  /\ Exported
  /\ \E i, j \in EdgeIds :
       /\ edges[i].src = N("gateway") /\ Synchronous(i)
       /\ edges[j].dst = N("broker") /\ Asynchronous(j)

(***************************************************************************)
(* C18.  In the data-flow script invisible edges are structural only:      *)
(* every edge of style "invis" runs from one of the two invisible anchor   *)
(* nodes to a real node, no visible edge touches an anchor, and so the     *)
(* visible nodes and edges are the graph without anchors and invisible     *)
(* edges.                                                                  *)
(***************************************************************************)
Invisible(attrs) == "style" \in DOMAIN attrs /\ attrs["style"] = "invis"

AnchorNodes == {n \in NodeIds : Invisible(nodes[n].attrs)}
InvisibleEdges == {i \in EdgeIds : Invisible(edges[i].attrs)}

\* the edges that remain when the anchors are removed with every edge at them
WithoutAnchors ==
  {i \in EdgeIds : edges[i].src \notin AnchorNodes /\ edges[i].dst \notin AnchorNodes}

C18_InvisibleEdgesStructural ==
  script = "data_flow_diagram" =>
    /\ \A i \in InvisibleEdges :
         /\ edges[i].src \in AnchorNodes
         /\ edges[i].dst \notin AnchorNodes
    /\ \A i \in EdgeIds \ InvisibleEdges :
         /\ edges[i].src \notin AnchorNodes
         /\ edges[i].dst \notin AnchorNodes
    /\ WithoutAnchors = EdgeIds \ InvisibleEdges
    /\ Exported =>
         /\ AnchorNodes = {N("anchor1"), N("anchor2")}
         /\ Cardinality(AnchorNodes) = 2
         /\ Cardinality(InvisibleEdges) = 4
         /\ InvisibleEdges = EdgesAt(177) \cup EdgesAt(178) \cup EdgesAt(179) \cup EdgesAt(180)
         /\ {edges[i].dst : i \in InvisibleEdges}
              = {N("order_process"), N("cart_process"), N("payment_db"), N("product_db")}

\* the data-flow script has exported its four invisible edges
C18_Witness ==
  /\ script = "data_flow_diagram"
  /\ Exported
  /\ Cardinality(InvisibleEdges) = 4
  /\ Cardinality(EdgeIds \ InvisibleEdges) > 0

(***************************************************************************)
(* C19.  Connecting a node to a list of nodes declares one edge from that  *)
(* node to each element of the list and nothing else.  In the AWS EKS      *)
(* script `user >> alb >> [three services]` adds user -> alb and one       *)
(* alb -> service edge per service (4 edges), `X_deploy >> X_pods` adds    *)
(* one edge per pod, and `eks_control_plane >> Edge(...) >> [prometheus,   *)
(* grafana, jaeger_query]` adds three edges with the same grey dashed      *)
(* style.                                                                  *)
(***************************************************************************)
\* operand x evaluates to a list of nodes
IsList(x) ==
  \/ x.t = "list"
  \/ x.t = "var" /\ x.name \in DOMAIN env /\ env[x.name].k = "list"

IsNode(x) == x.t = "var" /\ x.name \in DOMAIN env /\ env[x.name].k = "node"

\* the nodes operand x stands for, in order
Elements(x) ==
  IF x.t = "list" THEN [i \in 1..Len(x.names) |-> N(x.names[i])]
  ELSE IF env[x.name].k = "list" THEN env[x.name].ids
  ELSE <<N(x.name)>>

\* a chain of >> from a node through nodes and Edge(...) calls that ends in
\* a list of nodes
FanChain(st) ==
  /\ IsNode(st.first)
  /\ st.steps # <<>>
  /\ IsList(st.steps[Len(st.steps)][2])
  /\ \A k \in 1..Len(st.steps) : st.steps[k][1] = ">>"
  /\ \A k \in 1..(Len(st.steps) - 1) : st.steps[k][2].t = "edge" \/ IsNode(st.steps[k][2])

\* the edges such a chain declares, in order
RECURSIVE FanHops(_, _, _)
FanHops(prev, pending, steps) ==
  IF steps = <<>> THEN <<>>
  ELSE LET x == Head(steps)[2] IN
       IF x.t = "edge"
       THEN FanHops(prev, ThreeLevel(x.inst, ClassDict(x.class), <<>>), Tail(steps))
       ELSE [i \in 1..Len(Elements(x)) |->
               [src |-> prev, dst |-> Elements(x)[i], attrs |-> pending]]
            \o (IF IsList(x) THEN <<>> ELSE FanHops(N(x.name), <<>>, Tail(steps)))

FanoutAWS ==
  (script = "aws_eks_deployment_diagram" /\ Exported) =>
    /\ Cardinality(EdgesAt(139)) = 4
    /\ {<<edges[i].src, edges[i].dst>> : i \in EdgesAt(139)}
         = {<<N("user"), N("alb")>>, <<N("alb"), N("user_svc_service")>>,
            <<N("alb"), N("product_svc_service")>>, <<N("alb"), N("order_svc_service")>>}
    /\ \A i \in EdgesAt(139) : edges[i].attrs = <<>>
    /\ Cardinality(EdgesAt(72)) = 3
    /\ {<<edges[i].src, edges[i].dst>> : i \in EdgesAt(72)}
         = {<<N("eks_control_plane"), N("prometheus")>>,
            <<N("eks_control_plane"), N("grafana")>>,
            <<N("eks_control_plane"), N("jaeger_query")>>}
    /\ \A i \in EdgesAt(72) : edges[i].attrs = [color |-> "grey", style |-> "dashed"]
    /\ \A x \in {"user", "product", "order"} :
         LET deploy == N(x \o "_svc_deploy")
             pods == env[x \o "_svc_pods"].ids
         IN  /\ Len(pods) = 2
             /\ \A k \in 1..Len(pods) : Cardinality(EdgesBetween(deploy, pods[k])) = 1
             /\ Targets(deploy) \cap PodNodes = {pods[k] : k \in 1..Len(pods)}

C19_OneEdgePerListElement ==
  /\ []FanoutAWS
  /\ [][(Running("chain") /\ status' = "running" /\ FanChain(Stmt)) =>
          /\ NewEdges = FanHops(N(Stmt.first.name), <<>>, Stmt.steps)
          /\ \A i \in (Len(edges) + 1)..Len(edges') : edges'[i].dir = "forward"]_vars

\* the AWS EKS script has run line 139: alb is connected to the third service
C19_Witness ==
  /\ script = "aws_eks_deployment_diagram"
  /\ Exported
  /\ \E i \in EdgesAt(139) : edges[i].src = N("alb") /\ edges[i].dst = N("order_svc_service")
  /\ \E i \in EdgesAt(72) : edges[i].dst = N("jaeger_query")

(***************************************************************************)
(* C20.  The reverse and undirected operators declare one edge each:       *)
(* `x << Edge(...) << y` declares a single relationship directed from y to *)
(* x, and `x - y` / `x - Edge(...) - y` a single edge without direction,   *)
(* never a pair of opposite edges.  Grafana is the origin of the three     *)
(* "data source" edges to Prometheus, Loki and Jaeger Query, and each      *)
(* worker node the origin of its "egress" edge to the NAT gateway.         *)
(***************************************************************************)
\* the node a directed edge leaves and the node it points at
Origin(e) == IF e.dir = "back" THEN e.dst ELSE e.src
Target(e) == IF e.dir = "back" THEN e.src ELSE e.dst

\* x opr y  or  x opr Edge(...) opr y, between two nodes
Single(st, opr) ==
  /\ IsNode(st.first)
  /\ \/ /\ Len(st.steps) = 1
        /\ st.steps[1][1] = opr /\ IsNode(st.steps[1][2])
     \/ /\ Len(st.steps) = 2
        /\ st.steps[1][1] = opr /\ st.steps[1][2].t = "edge"
        /\ st.steps[2][1] = opr /\ IsNode(st.steps[2][2])

Left(st) == N(st.first.name)
Right(st) == N(st.steps[Len(st.steps)][2].name)

ReverseAndUndirected ==
  /\ (script = "observability_stack_diagram" /\ Exported) =>
       /\ \A l \in {108, 109, 110} :
            /\ Cardinality(EdgesAt(l)) = 1
            /\ \A i \in EdgesAt(l) :
                 /\ Origin(edges[i]) = N("grafana")
                 /\ edges[i].dir = "back"
                 /\ edges[i].attrs = [label |-> "data source", style |-> "dotted"]
       /\ {Target(edges[i]) : i \in EdgesAt(108) \cup EdgesAt(109) \cup EdgesAt(110)}
            = {N("prometheus"), N("loki"), N("jaeger_query")}
       /\ \A i \in EdgesAt(42) : edges[i].dir = "none"
  /\ (script = "aws_eks_deployment_diagram" /\ Exported) =>
       /\ Cardinality(EdgesAt(143)) = 3
       /\ {Origin(edges[i]) : i \in EdgesAt(143)} = {env["nodes"].ids[k] : k \in 1..3}
       /\ \A i \in EdgesAt(143) :
            /\ Target(edges[i]) = N("nat_gw")
            /\ edges[i].dir = "back"
            /\ edges[i].attrs = [label |-> "egress"]
  /\ (script = "multi_environment_deployment_diagram" /\ Exported) =>
       /\ \A l \in {148, 149} :
            /\ Cardinality(EdgesAt(l)) = 1
            /\ \A i \in EdgesAt(l) : edges[i].dir = "none"
       /\ Cardinality(EdgesBetween(N("dev_vpc"), N("stage_vpc"))) = 1
       /\ EdgesBetween(N("stage_vpc"), N("dev_vpc")) = {}
       /\ Cardinality(EdgesBetween(N("stage_vpc"), N("prod_vpc"))) = 1
       /\ EdgesBetween(N("prod_vpc"), N("stage_vpc")) = {}

C20_ReverseAndUndirected ==
  /\ []ReverseAndUndirected
  /\ [][/\ (Running("chain") /\ status' = "running" /\ Single(Stmt, "<<")) =>
              /\ Len(edges') = Len(edges) + 1
              /\ Origin(edges'[Len(edges')]) = Right(Stmt)
              /\ Target(edges'[Len(edges')]) = Left(Stmt)
              /\ edges'[Len(edges')].dir = "back"
        /\ (Running("chain") /\ status' = "running" /\ Single(Stmt, "-")) =>
              /\ Len(edges') = Len(edges) + 1
              /\ edges'[Len(edges')].src = Left(Stmt)
              /\ edges'[Len(edges')].dst = Right(Stmt)
              /\ edges'[Len(edges')].dir = "none"]_vars

\* the observability script has exported its reverse and undirected edges
C20_Witness ==
  /\ script = "observability_stack_diagram"
  /\ Exported
  /\ \E i \in EdgesAt(108) : Origin(edges[i]) = N("grafana") /\ Target(edges[i]) = N("prometheus")
  /\ \E i \in EdgesAt(42) : edges[i].dir = "none"

(***************************************************************************)
(* C21.  Declaring an edge changes the edge collection only: the nodes     *)
(* (cluster, label, attributes), the clusters and the open scopes are the  *)
(* same before and after, whichever cluster is current.  The component     *)
(* nodes of the C3 scripts stay in the service container cluster although  *)
(* their external edges are declared after the cluster has closed; the     *)
(* worker nodes and the control plane of the AWS EKS script stay in their  *)
(* clusters although lines 70 and 72 run inside "Observability Stack".     *)
(***************************************************************************)
C3Scripts ==
  {"c3_inventory_service_diagram", "c3_notification_service_diagram",
   "c3_order_service_diagram", "c3_payment_service_diagram",
   "c3_product_service_diagram", "c3_search_service_diagram",
   "c3_user_service_diagram"}

\* the edges the step appends
Appended == (Len(edges) + 1)..Len(edges')

EndpointsStay ==
  /\ (script = "aws_eks_deployment_diagram" /\ Exported) =>
       /\ \A k \in 1..3 : InClusterNamed(env["nodes"].ids[k], "Nodes Group")
       /\ InClusterNamed(N("eks_control_plane"), "EKS Cluster (Managed Kubernetes)")
       /\ InClusterNamed(N("fluentd_ds"), "Observability Stack")
       /\ Cardinality(EdgesAt(70)) = 3
       /\ Cardinality(EdgesAt(72)) = 3
  /\ (script = "c3_inventory_service_diagram" /\ Exported) =>
       /\ \A v \in {"api_interface", "event_consumer", "inventory_repository",
                    "cache_manager", "event_publisher"} : nodes[N(v)].cluster = 1
       /\ \A v \in {"admin", "product_service", "order_service", "frontend",
                    "inventory_db", "inventory_cache", "msg_broker"} : nodes[N(v)].cluster = 0
       /\ EdgesBetween(N("admin"), N("api_interface")) # {}
       /\ EdgesBetween(N("event_publisher"), N("msg_broker")) # {}

C21_EdgeOnlyAddsEdge ==
  /\ []EndpointsStay
  /\ [][/\ Running("chain") =>
              (nodes' = nodes /\ clusters' = clusters /\ cur' = cur /\ withs' = withs)
        /\ (Running("chain") /\ status' = "running"
              /\ script = "aws_eks_deployment_diagram" /\ Stmt.line \in {70, 72}) =>
              /\ clusters[cur].label = "Observability Stack"
              /\ Appended # {}
              /\ \A i \in Appended : nodes'[edges'[i].src].cluster # cur
        /\ (Running("chain") /\ status' = "running" /\ script \in C3Scripts /\ cur = 0) =>
              /\ Appended # {}
              /\ \A i \in Appended :
                   /\ nodes'[edges'[i].src].cluster = nodes[edges'[i].src].cluster
                   /\ nodes'[edges'[i].dst].cluster = nodes[edges'[i].dst].cluster
                   /\ nodes'[edges'[i].src].cluster \in {0, 1}
                   /\ nodes'[edges'[i].dst].cluster \in {0, 1}]_vars

\* the AWS EKS script has connected the control plane, which lies outside
\* "Observability Stack", from inside that cluster
C21_Witness ==
  /\ script = "aws_eks_deployment_diagram"
  /\ EdgesAt(72) # {}
  /\ cur # 0
  /\ clusters[cur].label = "Observability Stack"
  /\ nodes[N("eks_control_plane")].cluster # cur

(***************************************************************************)
(* C22.  In the multi-environment script the environments are isolated:    *)
(* an edge between two nodes that lie in environment clusters either stays *)
(* inside one environment or is one of the two undirected dotted edges     *)
(* labelled "isolated" between VPC nodes (dev - staging, staging -         *)
(* production); of the user nodes only Customers has an edge to a          *)
(* Production node, and Customers has none to Development or Staging.      *)
(***************************************************************************)
EnvironmentLabels ==
  {"Development Environment", "Staging Environment", "Production Environment"}

\* the outermost cluster that holds cluster c (0 for the diagram itself)
RECURSIVE Outermost(_)
Outermost(c) ==
  IF c = 0 THEN 0
  ELSE IF clusters[c].parent = 0 THEN c
  ELSE Outermost(clusters[c].parent)

\* the environment node n lies in, "" when it lies in none
EnvironmentOf(n) ==
  LET c == Outermost(nodes[n].cluster) IN
  IF c # 0 /\ clusters[c].label \in EnvironmentLabels THEN clusters[c].label ELSE ""

IsolationEdge(i) ==
  /\ edges[i].dir = "none"
  /\ edges[i].attrs = [style |-> "dotted", color |-> "red", label |-> "isolated"]
  /\ nodes[edges[i].src].cls = "VPC"
  /\ nodes[edges[i].dst].cls = "VPC"
  /\ <<EnvironmentOf(edges[i].src), EnvironmentOf(edges[i].dst)>> \in
       {<<"Development Environment", "Staging Environment">>,
        <<"Staging Environment", "Production Environment">>}

CrossEnvironment ==
  {i \in EdgeIds : /\ EnvironmentOf(edges[i].src) # ""
                   /\ EnvironmentOf(edges[i].dst) # ""
                   /\ EnvironmentOf(edges[i].src) # EnvironmentOf(edges[i].dst)}

UserNodes == {n \in NodeIds : nodes[n].cls \in {"User", "Client"}}

C22_EnvironmentsIsolated ==
  script = "multi_environment_deployment_diagram" =>
    /\ \A i \in CrossEnvironment : IsolationEdge(i)
    /\ \A i \in EdgeIds :
         (edges[i].src \in UserNodes \/ edges[i].dst \in UserNodes) =>
           LET u == IF edges[i].src \in UserNodes THEN edges[i].src ELSE edges[i].dst
               v == IF edges[i].src \in UserNodes THEN edges[i].dst ELSE edges[i].src
           IN  /\ EnvironmentOf(v) = "Production Environment" => nodes[u].label = "Customers"
               /\ nodes[u].label = "Customers" =>
                    EnvironmentOf(v) \notin {"Development Environment", "Staging Environment"}
    /\ Exported =>
         /\ CrossEnvironment = EdgesAt(148) \cup EdgesAt(149)
         /\ Cardinality(CrossEnvironment) = 2
         /\ Cardinality(UserNodes) = 4
         /\ Targets(N("customers")) = {N("prod_elb")}
         /\ EnvironmentOf(N("prod_elb")) = "Production Environment"
         /\ EnvironmentOf(N("dev_user_svc")) = "Development Environment"
         /\ EnvironmentOf(N("stage_rabbitmq")) = "Staging Environment"
         /\ EnvironmentOf(N("cicd")) = ""

\* the multi-environment script has exported its two isolation edges and
\* the edges of its users
C22_Witness ==
  /\ script = "multi_environment_deployment_diagram"
  /\ Exported
  /\ Cardinality(CrossEnvironment) = 2
  /\ \E i \in EdgeIds : edges[i].src = N("developers") /\ edges[i].dst = N("stage_elb")
  /\ \E i \in EdgeIds : EnvironmentOf(edges[i].src) = "Production Environment"
                          /\ EnvironmentOf(edges[i].dst) = "Production Environment"

(***************************************************************************)
(* C23.  In the container script publishing and consuming are consistent:  *)
(* the event types named on the edges into the message broker are          *)
(* OrderCreated, PaymentProcessed, ProductUpdated, StockUpdated and        *)
(* UserRegistered, the edges out of the broker name the same set, every    *)
(* consumed event has exactly one publishing service and every published   *)
(* event has at least one consuming service.                               *)
(***************************************************************************)
\* label l without the prefix p, when it starts with p
StripPrefix(l, p) ==
  IF Len(l) >= Len(p) /\ SubSeq(l, 1, Len(p)) = p
  THEN SubSeq(l, Len(p) + 1, Len(l)) ELSE l

\* label l without the suffix x, when it ends with x
StripSuffix(l, x) ==
  IF Len(l) >= Len(x) /\ SubSeq(l, Len(l) - Len(x) + 1, Len(l)) = x
  THEN SubSeq(l, 1, Len(l) - Len(x)) ELSE l

\* the event type an edge label names
EventType(l) == StripSuffix(StripPrefix(l, "Publishes "), " event")

BrokerBuilt == "message_broker" \in DOMAIN env

Published == {EventType(edges[i].attrs.label) : i \in BrokerIn}
Consumed == {EventType(edges[i].attrs.label) : i \in BrokerOut}
Publishers(e) == {edges[i].src : i \in {j \in BrokerIn : EventType(edges[j].attrs.label) = e}}
Consumers(e) == {edges[i].dst : i \in {j \in BrokerOut : EventType(edges[j].attrs.label) = e}}

C23_PublishConsumeConsistent ==
  (script = "c2_container_diagram" /\ BrokerBuilt) =>
    /\ Consumed \subseteq Published
    /\ \A e \in Published : Cardinality(Publishers(e)) = 1
    /\ Exported =>
         /\ Published = { "OrderCreated", "PaymentProcessed", "ProductUpdated",
                          "StockUpdated", "UserRegistered" }
         /\ Consumed = Published
         /\ \A e \in Consumed : Cardinality(Publishers(e)) = 1
         /\ \A e \in Published : Cardinality(Consumers(e)) >= 1

\* the container script has exported a diagram in which PaymentProcessed has
\* one publisher and two consumers
C23_Witness ==
  /\ script = "c2_container_diagram"
  /\ Exported
  /\ Publishers("PaymentProcessed") = {N("payment_service")}
  /\ Consumers("PaymentProcessed") = {N("order_service"), N("notification_service")}
  /\ Consumers("StockUpdated") = {N("product_service")}

(***************************************************************************)
(* C24.  In the container script and in the seven component scripts every  *)
(* edge declared inside the container/platform cluster block has both      *)
(* endpoints inside that cluster, and every edge declared after the block  *)
(* has exactly one endpoint inside the cluster and one outside it, except  *)
(* the two "User interactions" edges of the user-service script (lines     *)
(* 84-85, customer and admin to frontend), whose endpoints are both        *)
(* outside the cluster.                                                    *)
(***************************************************************************)
SectionedScripts == {"c2_container_diagram"} \cup C3Scripts

\* node n lies in the first cluster of the diagram (the container or
\* platform boundary) or in a cluster nested in it
InBoundary(n) == nodes[n].cluster # 0 /\ Inside(nodes[n].cluster, 1)

UserInteraction(e) ==
  /\ script = "c3_user_service_diagram"
  /\ e.line \in {84, 85}
  /\ e.src \in {N("customer"), N("admin")}
  /\ e.dst = N("frontend")
  /\ ~InBoundary(e.src)
  /\ ~InBoundary(e.dst)

\* a chain statement of a sectioned script runs to its end
SectionedChain ==
  Running("chain") /\ status' = "running" /\ script \in SectionedScripts

C24_SectionsMatchBoundary ==
  [][SectionedChain =>
       /\ Appended # {}
       /\ Len(clusters) >= 1
       /\ \A i \in Appended :
            IF cur # 0
            THEN Inside(cur, 1) /\ InBoundary(edges'[i].src) /\ InBoundary(edges'[i].dst)
            ELSE \/ InBoundary(edges'[i].src) # InBoundary(edges'[i].dst)
                 \/ UserInteraction(edges'[i])]_vars

\* the claim as stated: no exception for the user-service script
C24_Original ==
  [][SectionedChain =>
       \A i \in Appended :
         IF cur # 0
         THEN InBoundary(edges'[i].src) /\ InBoundary(edges'[i].dst)
         ELSE InBoundary(edges'[i].src) # InBoundary(edges'[i].dst)]_vars

\* the user-service script has declared internal edges, boundary-crossing
\* edges and the edge from admin to frontend, both of them outside
C24_Witness ==
  /\ script = "c3_user_service_diagram"
  /\ cur = 0
  /\ \E i \in EdgesAt(85) : ~InBoundary(edges[i].src) /\ ~InBoundary(edges[i].dst)
  /\ \E i \in EdgeIds : InBoundary(edges[i].src) /\ InBoundary(edges[i].dst)
  /\ \E i \in EdgeIds : InBoundary(edges[i].src) # InBoundary(edges[i].dst)

(***************************************************************************)
(* C25.  In every C4 script (the system context script, the container      *)
(* script and the seven component scripts) no node is left unconnected:    *)
(* every node constructed is the source or the target of at least one      *)
(* declared edge when the diagram is exported.                             *)
(***************************************************************************)
C4Scripts == {"c1_system_context_diagram", "c2_container_diagram"} \cup C3Scripts

\* the nodes that no edge starts from or ends at
Unconnected ==
  {n \in NodeIds : \A i \in EdgeIds : edges[i].src # n /\ edges[i].dst # n}

C25_NoUnconnectedNode ==
  (script \in C4Scripts /\ Exported) => Unconnected = {}

\* what the scripts do: only the search-service script leaves a node
\* unconnected, its inventory_service (line 29)
C25_OnlyInventoryOfSearch ==
  (script \in C4Scripts /\ Exported) =>
    Unconnected = IF script = "c3_search_service_diagram"
                  THEN {N("inventory_service")} ELSE {}

(***************************************************************************)
(* C26.  Within each diagram the cluster labels are pairwise distinct,     *)
(* except the per-pod clusters of the AWS EKS script: "Pod 1" and "Pod 2"  *)
(* each label three clusters, one inside each of "User Service",           *)
(* "Product Service" and "Order Service".  Clusters with the same parent   *)
(* have distinct labels, so a cluster is identified by the labels on its   *)
(* path from the diagram, and the containment tree is a tree of objects.   *)
(***************************************************************************)
\* the pairs of distinct clusters that carry the same label
SameLabel ==
  {p \in ClusterIds \X ClusterIds : p[1] < p[2] /\ clusters[p[1]].label = clusters[p[2]].label}

\* the labels from the outermost cluster down to cluster c
RECURSIVE LabelPath(_)
LabelPath(c) ==
  IF c = 0 THEN <<>> ELSE Append(LabelPath(clusters[c].parent), clusters[c].label)

PodClusterParents == {"User Service", "Product Service", "Order Service"}

Labelled(l) == {c \in ClusterIds : clusters[c].label = l}

C26_ClusterLabelPaths ==
  /\ \A p \in SameLabel :
       /\ script = "aws_eks_deployment_diagram"
       /\ clusters[p[1]].label \in {"Pod 1", "Pod 2"}
       /\ clusters[p[1]].parent # clusters[p[2]].parent
       /\ clusters[p[1]].parent # 0 /\ clusters[p[2]].parent # 0
       /\ clusters[clusters[p[1]].parent].label \in PodClusterParents
       /\ clusters[clusters[p[2]].parent].label \in PodClusterParents
  /\ \A c, d \in ClusterIds : c # d => LabelPath(c) # LabelPath(d)
  /\ \A c \in ClusterIds : clusters[c].parent < c
  /\ (script = "aws_eks_deployment_diagram" /\ Exported) =>
       /\ Cardinality(Labelled("Pod 1")) = 3
       /\ Cardinality(Labelled("Pod 2")) = 3
       /\ {clusters[clusters[c].parent].label : c \in Labelled("Pod 1")} = PodClusterParents
       /\ {clusters[clusters[c].parent].label : c \in Labelled("Pod 2")} = PodClusterParents

\* the claim as stated: no two clusters of a diagram carry the same label
C26_Original == SameLabel = {}

\* the AWS EKS script has exported a diagram with two clusters labelled
\* "Pod 1" in different service clusters
C26_Witness ==
  /\ script = "aws_eks_deployment_diagram"
  /\ Exported
  /\ \E p \in SameLabel :
       /\ clusters[p[1]].label = "Pod 1"
       /\ clusters[clusters[p[1]].parent].label = "User Service"
       /\ clusters[clusters[p[2]].parent].label = "Order Service"

(***************************************************************************)
(* C27.  In the data-flow script the style class of every visible edge is  *)
(* determined by the categories of its endpoints: an edge with a           *)
(* data-store endpoint uses data_store_edge, an edge with an               *)
(* external-system endpoint uses external_edge, an edge from a process     *)
(* into the Notification process uses event_edge (dashed), every other     *)
(* edge uses normal_edge; no visible edge connects a data store to an      *)
(* external entity, an external system or another data store.              *)
(***************************************************************************)
\* node n was made inside the top-level cluster labelled l
InGroup(n, l) ==
  nodes[n].cluster # 0 /\ clusters[Outermost(nodes[n].cluster)].label = l

DataStore(n) == InGroup(n, "Data\nStores")
ExternalSystem(n) == InGroup(n, "External\nSystems")
ExternalEntity(n) == InGroup(n, "External\nEntities")
Process(n) == InGroup(n, "Core Processes")

\* edge i carries exactly the keys of the style dictionary `class`, next
\* to the keywords of its own call
UsesClass(i, class) ==
  LET d == Styles(script)[class] IN
  /\ DOMAIN d \subseteq DOMAIN edges[i].attrs
  /\ \A k \in DOMAIN d : edges[i].attrs[k] = d[k]
  /\ DOMAIN edges[i].attrs \subseteq DOMAIN d \cup {"label", "minlen"}

\* the class the endpoints of edge i call for
ClassFor(i) ==
  LET a == edges[i].src
      b == edges[i].dst
  IN  IF DataStore(a) \/ DataStore(b) THEN "data_store_edge"
      ELSE IF ExternalSystem(a) \/ ExternalSystem(b) THEN "external_edge"
      ELSE IF Process(a) /\ nodes[b].label = "Notification\nProcess" THEN "event_edge"
      ELSE "normal_edge"

EdgeClasses == {"normal_edge", "data_store_edge", "external_edge", "event_edge"}

VisibleEdges == EdgeIds \ InvisibleEdges

C27_EdgeClassByEndpoints ==
  script = "data_flow_diagram" =>
    /\ \A i \in VisibleEdges :
         /\ \A c \in EdgeClasses : UsesClass(i, c) <=> c = ClassFor(i)
         /\ UsesClass(i, "event_edge") => edges[i].attrs["style"] = "dashed"
         /\ DataStore(edges[i].src) \/ DataStore(edges[i].dst) =>
              Process(edges[i].src) \/ Process(edges[i].dst)
    /\ Exported =>
         /\ Cardinality({i \in VisibleEdges : UsesClass(i, "normal_edge")}) = 14
         /\ Cardinality({i \in VisibleEdges : UsesClass(i, "data_store_edge")}) = 9
         /\ Cardinality({i \in VisibleEdges : UsesClass(i, "external_edge")}) = 7
         /\ Cardinality({i \in VisibleEdges : UsesClass(i, "event_edge")}) = 3

\* the data-flow script has exported edges of all four classes, among them
\* the external edge out of the Notification process
C27_Witness ==
  /\ script = "data_flow_diagram"
  /\ Exported
  /\ \A c \in EdgeClasses : \E i \in VisibleEdges : UsesClass(i, c)
  /\ \E i \in EdgesAt(173) : UsesClass(i, "external_edge") /\ Process(edges[i].src)
  /\ \E i \in EdgesAt(130) : UsesClass(i, "data_store_edge") /\ DataStore(edges[i].dst)

(***************************************************************************)
(* C28.  In the CI/CD script promotion is strictly ordered: every directed *)
(* path from "CD Workflow" to the "Production" environment node passes     *)
(* through "Deploy to Dev", then "Deploy to Staging", then "Deploy to      *)
(* Production"; the only other edge into "Deploy to Production" is the     *)
(* Release Manager's "approves" edge; "Staging" and "Production" are not   *)
(* reachable from "CD Workflow" without passing "Deploy to Dev".           *)
(***************************************************************************)
\* the nodes with display label l
NodesLabelled(l) == {n \in NodeIds : nodes[n].label = l}

\* the nodes one arrow away from a node of S, the nodes of `avoid` left out
Step(S, avoid) ==
  {Target(edges[i]) : i \in {j \in EdgeIds : Origin(edges[j]) \in S /\ edges[j].dir # "none"}}
    \ avoid

\* the nodes a directed path of one or more arrows leads to from S without
\* entering a node of `avoid`
RECURSIVE Grow(_, _)
Grow(R, avoid) ==
  LET more == R \cup Step(R, avoid) IN
  IF more = R THEN R ELSE Grow(more, avoid)

Reach(S, avoid) == Grow(Step(S, avoid), avoid)

CDWorkflow == NodesLabelled("CD Workflow")
DeployDev == NodesLabelled("Deploy to Dev")
DeployStaging == NodesLabelled("Deploy to Staging")
DeployProduction == NodesLabelled("Deploy to Production")
Staging == NodesLabelled("Staging")
Production == NodesLabelled("Production")

C28_PromotionOrdered ==
  script = "cicd_pipeline_diagram" =>
    /\ Production \cap Reach(CDWorkflow, DeployDev) = {}
    /\ Staging \cap Reach(CDWorkflow, DeployDev) = {}
    /\ Production \cap Reach(DeployDev, DeployStaging) = {}
    /\ Production \cap Reach(DeployStaging, DeployProduction) = {}
    /\ \A n \in NodeIds : n \notin Reach({n}, {})
    /\ \A i \in EdgeIds :
         Target(edges[i]) \in DeployProduction =>
           \/ Origin(edges[i]) \in DeployStaging /\ edges[i].attrs = <<>>
           \/ /\ Origin(edges[i]) \in NodesLabelled("Release Manager")
              /\ edges[i].attrs = [color |-> "red", label |-> "approves"]
    /\ Exported =>
         /\ \A S \in {CDWorkflow, DeployDev, DeployStaging, DeployProduction,
                      Staging, Production} : Cardinality(S) = 1
         /\ Production \subseteq Reach(CDWorkflow, {})
         /\ Staging \subseteq Reach(CDWorkflow, {})
         /\ DeployDev \subseteq Reach(CDWorkflow, {})
         /\ DeployStaging \subseteq Reach(DeployDev, {})
         /\ DeployProduction \subseteq Reach(DeployStaging, {})
         /\ Cardinality({i \in EdgeIds : Target(edges[i]) \in DeployProduction}) = 2

\* the CI/CD script has exported a diagram in which Production is reached
\* from CD Workflow and Deploy to Production has its approval edge
C28_Witness ==
  /\ script = "cicd_pipeline_diagram"
  /\ Exported
  /\ Production # {}
  /\ Production \subseteq Reach(CDWorkflow, {})
  /\ \E i \in EdgesAt(101) : Target(edges[i]) \in DeployProduction
====
